---- MODULE Spec2Model ----
(***************************************************************************)
(* Session/PTY orchestration layer of src/claude.py (class CLAUDE):        *)
(* session lifecycle, the PTY read loop, the debounced output flush, the   *)
(* permission broker and the inbound-message router, as a state machine.   *)
(*                                                                         *)
(* The asyncio scheduler is cooperative: a handler runs atomically up to   *)
(* its next real suspension (an awaited network send or sleep).  Each      *)
(* action below is one such atomic segment.  The supervised processes and  *)
(* the passage of time are the environment.                                *)
(***************************************************************************)
EXTENDS Integers, Sequences, FiniteSets, TLC

(* ---------------------------------------------------------------- bounds *)
MaxEmit   == 2      \* lines written by all supervised processes together
MaxOutput == 3      \* the same, where the output aggregator alone is watched
MaxInputs == 2      \* inbound operator messages
OneInput  == 1      \* inbound operator messages, where one is the case at hand
OneEmit   == 1      \* lines written, where one relayed message is the case at hand
TickMs    == 200    \* how far one step of time moves the clock, in ms
RunSeconds == 2     \* seconds on the clock between a session's creation and its end
MaxIdLen  == 3      \* pieces of text in an id embedded in an outbound message
TextCap   == 9      \* pieces of text a relayed message may have before it is cut
TextKeep  == 4      \* pieces of text dropped from the cap when a message is cut

(* ------------------------------------------------------ program constants *)
OUTPUT_MAX_CHARS == 3500
OUTPUT_FLUSH_MS  == 200
UuidLen          == 36      \* len(str(uuid.uuid4()))
TruncKeep        == 10      \* formatted_text[:OUTPUT_MAX_CHARS-10]
DefaultCode      == 3       \* PermissionRequest.default
None             == -1      \* Optional[...] = None for the integer fields

SIDs  == {1, 2}          \* the session ids run_command hands out, in order
Users == {"u1", "u2"}

TruncMarker == <<" ", "[", "T", "R", "U", "N", "C", "A", "T", "E", "D", "]">>

(* PermissionRequest.__post_init__: the default option set *)
DefaultOptions == {1, 2, 3}

(* ------------------------------------------------------------ the output *)
(* The lines a supervised process writes, drawn from a small alphabet.     *)
PlainLine  == "hello"
PromptLine == "Execute command rm"
LongLine   == "x*3600"
MultiLine  == "Permission required: Access to disk"
Lines      == {PlainLine, PromptLine, LongLine}

LineLen(l) ==
  CASE l = PlainLine  -> 5
    [] l = PromptLine -> 18
    [] l = LongLine   -> 3600
    [] l = MultiLine  -> 35
    [] l = "\n"       -> 1

(* _check_for_permission_prompt: the ordered pattern table, evaluated on   *)
(* the alphabet: the patterns (by index) that re.search finds in a line.   *)
PatternCount == 6
PatternHits(l) ==
  (CASE l = PromptLine -> {5}
     [] l = MultiLine  -> {2, 6}
     [] OTHER          -> {}) \cap (1..PatternCount)

(* re.search(patterns[p], l).group(0) *)
MatchText(l, p) ==
  CASE l = PromptLine /\ p = 5 -> "Execute command rm"
    [] l = MultiLine  /\ p = 2 -> "Permission required: Access to disk"
    [] l = MultiLine  /\ p = 6 -> "Access to disk"
    [] OTHER                   -> ""

(* the last pattern of the table that matches: what taking the first      *)
(* match must differ from                                                  *)
LastMatch(l) ==
  IF PatternHits(l) = {} THEN 0
  ELSE CHOOSE p \in PatternHits(l) : \A q \in PatternHits(l) : p >= q

(* the first pattern of the table that matches, 0 when none does *)
FirstMatch(l) ==
  IF PatternHits(l) = {} THEN 0
  ELSE CHOOSE p \in PatternHits(l) : \A q \in PatternHits(l) : p <= q

IsPrompt(l) == FirstMatch(l) # 0

(* match.group(0) of the first matching pattern *)
Summary(l) == MatchText(l, FirstMatch(l))

(* ------------------------------------------------------------- utilities *)
Put(f, k, v) == [x \in (DOMAIN f) \cup {k} |-> IF x = k THEN v ELSE f[x]]
Del(f, k)    == [x \in (DOMAIN f) \ {k} |-> f[x]]

RECURSIVE SumLen(_)
SumLen(seq) == IF seq = <<>> THEN 0 ELSE LineLen(Head(seq)) + SumLen(Tail(seq))

(* '\n'.join(chunks) *)
RECURSIVE Join(_)
Join(chunks) ==
  IF chunks = <<>> THEN <<>>
  ELSE IF Len(chunks) = 1 THEN chunks
  ELSE <<Head(chunks), "\n">> \o Join(Tail(chunks))

(* the chunks of a joined text, in order *)
ChunksOf(text) == SelectSeq(text, LAMBDA t : t # "\n")

Min(a, b) == IF a < b THEN a ELSE b
Max(a, b) == IF a > b THEN a ELSE b

(* index of the first prompt line of a sequence of lines, 0 when none *)
FirstPromptIdx(lines) ==
  IF \E i \in 1..Len(lines) : IsPrompt(lines[i])
  THEN CHOOSE i \in 1..Len(lines) :
         IsPrompt(lines[i]) /\ \A j \in 1..(i-1) : ~IsPrompt(lines[j])
  ELSE 0

VARIABLES
  sessions,               \* self.sessions: session_id -> Session
  permission_requests,    \* self.permission_requests: request_id -> PermissionRequest
  pending_requests,       \* self.pending_requests: session_id -> [request_id]
  output_buffers,         \* self.output_buffers: session_id -> [chunk]
  output_flush_timers,    \* self.output_flush_timers: session_id -> timer handle
  pty_processes,          \* self.pty_processes: the session ids with a handle
  claimed_sessions,       \* self.claimed_sessions: user_id -> session_id
  telegram_message_map,   \* self.telegram_message_map: message -> request_id
  audit_log,              \* self.audit_log
  sessions_file,          \* SESSIONS_FILE: the records save_session appended
  proc,                   \* the spawned processes: liveness, unread PTY output,
                          \* everything written so far, input received
  scheduled,              \* timer handles pending in the event loop
  flush_tasks,            \* flush_output tasks created by expired timers
  reader,                 \* read_pty_output task of each session
  sent,                   \* messages handed to the Messaging Port, in order
  outcome,                \* the Session passed to send_session_end
  transitions,            \* every (old, new) pair of an assignment to Session.state
  burst,                  \* stdout chunks buffered since the session's last flush message
  last,                   \* the last handler run and what it answered
  allowed_user_ids,       \* ALLOWED_USER_IDS, read once from the environment
  orphans,                \* sessions with a displaced process and read loop still running
  bridge,                 \* TelegramBridge and its polling loop, with the updates
                          \* Telegram holds for the bot
  ctr                     \* allocation counters and remaining event budget

vars == <<sessions, permission_requests, pending_requests, output_buffers,
          output_flush_timers, pty_processes, claimed_sessions,
          telegram_message_map, audit_log, sessions_file, proc, scheduled,
          flush_tasks, reader, sent, outcome, transitions, burst, last,
          allowed_user_ids, orphans, bridge, ctr>>

(* what the handlers of CLAUDE never assign *)
others == <<allowed_user_ids, orphans, bridge>>

progVars == <<sessions, permission_requests, pending_requests, output_buffers,
              output_flush_timers, pty_processes, claimed_sessions,
              telegram_message_map, audit_log, sessions_file,
              others>>

Empty == [x \in {} |-> 0]

NoTarget == [kind |-> "none", rid |-> 0, sid |-> 0]

NoOp == [op |-> "none", reply |-> ""]

(* no TelegramBridge constructed yet.  offset is the local of              *)
(* start_polling, updates what Telegram has received for the bot (an       *)
(* update's position is its update_id), seen the update_ids given to       *)
(* handle_incoming_message, handled the invocations of the message handler *)
(* and status how the last poll ended.                                     *)
NoBridge ==
  [configured |-> FALSE, handler |-> FALSE, forward_prefix |-> <<>>,
   offset |-> 0, updates |-> <<>>, seen |-> <<>>, handled |-> <<>>,
   status |-> "none"]

(* CLAUDE.__init__ with an empty storage directory, then main(): the bot   *)
(* is started and TELEGRAM_CHAT_ID is set before run_command is reached.   *)
(* emits and inputs are how many lines the processes may write and how     *)
(* many messages the operators may send in the run.                        *)
InitWith(emits, inputs, allowed) ==
  /\ sessions = Empty
  /\ permission_requests = Empty
  /\ pending_requests = Empty
  /\ output_buffers = Empty
  /\ output_flush_timers = Empty
  /\ pty_processes = {}
  /\ claimed_sessions = Empty
  /\ telegram_message_map = Empty
  /\ audit_log = <<>>
  /\ sessions_file = <<>>
  /\ proc = Empty
  /\ scheduled = {}
  /\ flush_tasks = {}
  /\ reader = Empty
  /\ sent = <<>>
  /\ outcome = Empty
  /\ transitions = {}
  /\ burst = Empty
  /\ last = NoOp
  /\ allowed_user_ids = allowed
  /\ orphans = {}
  /\ bridge = NoBridge
  /\ ctr = [sid |-> 1, rid |-> 1, emit |-> 0, input |-> 0,
            max_emit |-> emits, max_input |-> inputs]

Init == \E allowed \in {{}, {"u1"}} : InitWith(MaxEmit, MaxInputs, allowed)

(* ------------------------------------------------------------ data types *)
(* Session(...) as create_session builds it *)
(* a session record that is already running: what a created session must  *)
(* differ from                                                             *)
RunningSession ==
  [state |-> "RUNNING", start_time |-> 0, end_time |-> None, exit_code |-> None,
   duration_ms |-> None]

NewSession ==
  [state |-> "CREATED", start_time |-> 0, end_time |-> None, exit_code |-> None,
   duration_ms |-> None]

(* int((session.end_time - session.start_time) * 1000) *)
DurationMs(start, end) == (end - start) * 1000

(* session.state = <terminal>; session.end_time = time.time();             *)
(* session.duration_ms = ...: the record as the three ending sites leave it *)
Ended(session, state) ==
  [session EXCEPT !.state = state, !.end_time = session.start_time + RunSeconds,
                  !.duration_ms = DurationMs(session.start_time,
                                             session.start_time + RunSeconds)]

(* save_session: session.to_dict() appended to SESSIONS_FILE; saved is      *)
(* whether the write went through (a failure is logged and swallowed)      *)
save_session(file, s, session, saved) ==
  IF saved THEN Append(file, [session_id |-> s, state |-> session.state]) ELSE file

(* PermissionRequest(...) as send_permission_request builds it *)
NewRequest(s, category, summary) ==
  [session_id |-> s, category |-> category, summary |-> summary,
   options |-> DefaultOptions, default |-> DefaultCode, resolved |-> FALSE,
   decision_code |-> None, decided_by |-> "", decided_at |-> None]

IdleReader == [pc |-> "poll", cur |-> "", rest |-> <<>>]

(* ------------------------------------------------------- Messaging Port *)
StreamLen == 6     \* len("STDOUT") = len("STDERR")

(* len(f"[SID:{session_id}] {stream.upper()}: {text}") *)
FormattedLen(text) == 5 + UuidLen + 2 + StreamLen + 2 + SumLen(text)

(* send_output_chunk: the length of the text handed to bot.send_message *)
SentLen(text) ==
  IF FormattedLen(text) > OUTPUT_MAX_CHARS
  THEN Min(FormattedLen(text), Max(OUTPUT_MAX_CHARS - TruncKeep, 0)) + Len(TruncMarker)
  ELSE FormattedLen(text)

(* send_output_chunk: the message handed to bot.send_message *)
OutputMessage(s, stream, text) ==
  [kind |-> "output", sid |-> s, rid |-> 0, stream |-> stream, text |-> text,
   len |-> SentLen(text),
   truncated |-> FormattedLen(text) > OUTPUT_MAX_CHARS]

(* send_permission_request: the prompt, carrying [RID:..][SID:..] *)
PromptMessage(s, rid, summary) ==
  [kind |-> "prompt", sid |-> s, rid |-> rid, stream |-> "", text |-> <<summary>>,
   len |-> 0, truncated |-> FALSE]

(* ----------------------------------------------------------- run_command *)
(* run_command: create_session, then start_session, without a suspension   *)
(* in between; ok is whether pexpect.spawn succeeds.                       *)
RunCommand(ok, saved) ==
  LET s == ctr.sid IN
  /\ s \in SIDs
  /\ ctr' = [ctr EXCEPT !.sid = s + 1]
  /\ sessions_file' = save_session(sessions_file, s, NewSession, saved)
  /\ burst' = Put(burst, s, <<>>)
  /\ pending_requests' = Put(pending_requests, s, <<>>)
  /\ output_buffers' = Put(output_buffers, s, <<>>)
  /\ IF ok
     THEN /\ sessions' = Put(sessions, s, [NewSession EXCEPT !.state = "RUNNING"])
          /\ pty_processes' = pty_processes \cup {s}
          /\ proc' = Put(proc, s, [alive |-> TRUE, out |-> <<>>, log |-> <<>>,
                                   stdin |-> <<>>])
          /\ reader' = Put(reader, s, IdleReader)
          /\ transitions' = transitions \cup
               {<<"CREATED", "STARTING">>, <<"STARTING", "RUNNING">>}
          /\ UNCHANGED outcome
     ELSE /\ sessions' = Del(sessions, s)
          /\ pty_processes' = pty_processes \ {s}
          /\ transitions' = transitions \cup
               {<<"CREATED", "STARTING">>, <<"STARTING", "FAILED">>}
          /\ outcome' = Put(outcome, s, Ended(NewSession, "FAILED"))
          /\ UNCHANGED <<proc, reader>>
  /\ UNCHANGED <<permission_requests, output_flush_timers, claimed_sessions,
                 telegram_message_map, audit_log, scheduled, flush_tasks, sent,
                 last, others>>

(* create_session on its own; saved is whether save_session's write went   *)
(* through                                                                 *)
CreateSession(saved) ==
  LET s == ctr.sid IN
  /\ s \in SIDs
  /\ ctr' = [ctr EXCEPT !.sid = s + 1]
  /\ sessions' = Put(sessions, s, NewSession)
  /\ output_buffers' = Put(output_buffers, s, <<>>)
  /\ pending_requests' = Put(pending_requests, s, <<>>)
  /\ sessions_file' = save_session(sessions_file, s, NewSession, saved)
  /\ burst' = Put(burst, s, <<>>)
  /\ UNCHANGED <<permission_requests, output_flush_timers, pty_processes,
                 claimed_sessions, telegram_message_map, audit_log, proc,
                 scheduled, flush_tasks, reader, sent, outcome, transitions,
                 last, others>>

(* start_session on its own, for a registered session in whatever state;   *)
(* ok is whether pexpect.spawn succeeds.  A process and read loop the      *)
(* session already had are displaced, not stopped: the handle is replaced  *)
(* and the earlier loop keeps its own reference to the earlier process.    *)
StartSession(s, ok) ==
  /\ s \in DOMAIN sessions
  /\ IF ok
     THEN /\ sessions' = [sessions EXCEPT ![s].state = "RUNNING"]
          /\ pty_processes' = pty_processes \cup {s}
          /\ proc' = Put(proc, s, [alive |-> TRUE, out |-> <<>>, log |-> <<>>,
                                   stdin |-> <<>>])
          /\ reader' = Put(reader, s, IdleReader)
          /\ orphans' = IF s \in DOMAIN reader /\ reader[s].pc # "done"
                        THEN orphans \cup {s} ELSE orphans
          /\ transitions' = transitions \cup
               {<<sessions[s].state, "STARTING">>, <<"STARTING", "RUNNING">>}
          /\ UNCHANGED outcome
     ELSE /\ sessions' = Del(sessions, s)
          /\ pty_processes' = pty_processes \ {s}
          /\ transitions' = transitions \cup
               {<<sessions[s].state, "STARTING">>, <<"STARTING", "FAILED">>}
          /\ outcome' = Put(outcome, s, Ended(sessions[s], "FAILED"))
          /\ UNCHANGED <<proc, reader, orphans>>
  /\ UNCHANGED <<permission_requests, pending_requests, output_buffers,
                 output_flush_timers, claimed_sessions, telegram_message_map,
                 audit_log, sessions_file, scheduled, flush_tasks, sent, burst,
                 last, allowed_user_ids, bridge, ctr>>

(* a displaced process ends and the read loop that still follows it runs   *)
(* the block after its loop: the session is marked COMPLETED unless it is  *)
(* COMPLETED or FAILED, and evicted, with the handle registered by then.   *)
OrphanEnd(s) ==
  /\ s \in orphans
  /\ orphans' = orphans \ {s}
  /\ IF s \in DOMAIN sessions
     THEN /\ IF sessions[s].state \notin {"COMPLETED", "FAILED"}
             THEN /\ transitions' = transitions \cup
                       {<<sessions[s].state, "COMPLETED">>}
                  /\ outcome' = Put(outcome, s, Ended(sessions[s], "COMPLETED"))
             ELSE UNCHANGED <<transitions, outcome>>
          /\ pty_processes' = pty_processes \ {s}
          /\ output_buffers' = Del(output_buffers, s)
          /\ pending_requests' = Del(pending_requests, s)
          /\ sessions' = Del(sessions, s)
     ELSE UNCHANGED <<transitions, outcome, pty_processes, output_buffers,
                      pending_requests, sessions>>
  /\ UNCHANGED <<permission_requests, output_flush_timers, claimed_sessions,
                 telegram_message_map, audit_log, sessions_file, proc, scheduled,
                 flush_tasks, reader, sent, burst, last, allowed_user_ids,
                 bridge, ctr>>

(* load_storage: the sessions read back from SESSIONS_FILE, a later record *)
(* of an id replacing an earlier one; records in a terminal state skipped  *)
Rehydrated(file) ==
  LET kept == {i \in 1..Len(file) :
                 file[i].state \notin {"COMPLETED", "FAILED", "CANCELLED"}}
      ids  == {file[i].session_id : i \in kept}
      at(s) == CHOOSE i \in kept :
                 /\ file[i].session_id = s
                 /\ \A j \in kept : file[j].session_id = s => j <= i
  IN [s \in ids |-> [NewSession EXCEPT !.state = file[at(s)].state]]

(* the supervisor is stopped and started again: CLAUDE.__init__ with       *)
(* load_storage on what the earlier run left on disk.  The processes of    *)
(* the earlier run lose their terminal; its tasks and timers are gone.     *)
Restart ==
  /\ sessions' = Rehydrated(sessions_file)
  /\ permission_requests' = Empty
  /\ pending_requests' = Empty
  /\ output_buffers' = Empty
  /\ output_flush_timers' = Empty
  /\ pty_processes' = {}
  /\ claimed_sessions' = Empty
  /\ telegram_message_map' = Empty
  /\ proc' = [s \in DOMAIN proc |-> [proc[s] EXCEPT !.alive = FALSE, !.out = <<>>]]
  /\ scheduled' = {}
  /\ flush_tasks' = {}
  /\ reader' = Empty
  /\ last' = NoOp
  /\ UNCHANGED <<audit_log, sessions_file, sent, outcome, transitions, burst,
                 others, ctr>>

(* ------------------------------------------------------- the environment *)
(* the supervised process writes a line to its terminal *)
ProcEmit(s, l) ==
  /\ s \in DOMAIN proc /\ proc[s].alive
  /\ ctr.emit < ctr.max_emit
  /\ proc' = [proc EXCEPT ![s].out = Append(@, l), ![s].log = Append(@, l)]
  /\ ctr' = [ctr EXCEPT !.emit = @ + 1]
  /\ UNCHANGED <<progVars, scheduled, flush_tasks, reader, sent, outcome,
                 transitions, burst, last>>

(* the supervised process exits normally *)
ProcExit(s) ==
  /\ s \in DOMAIN proc /\ proc[s].alive
  /\ proc' = [proc EXCEPT ![s].alive = FALSE]
  /\ UNCHANGED <<progVars, scheduled, flush_tasks, reader, sent, outcome,
                 transitions, burst, last, ctr>>

(* time passes: every pending timer handle gets closer to its deadline *)
Tick ==
  /\ \E h \in scheduled : h.remaining > 0
  /\ scheduled' = {[h EXCEPT !.remaining = Max(0, @ - TickMs)] : h \in scheduled}
  /\ UNCHANGED <<progVars, proc, flush_tasks, reader, sent, outcome,
                 transitions, burst, last, ctr>>

(* --------------------------------------------------- handle_output_chunk *)
(* handle_output_chunk, stdout branch after the detector: cancel the       *)
(* session's timer handle and schedule a new one.                          *)
RestartTimer(s, sched, timers) ==
  LET live == IF s \in DOMAIN timers
              THEN {h \in sched : ~(h.sid = s /\ h.id = timers[s])}
              ELSE sched
      id   == IF s \in DOMAIN timers THEN timers[s] + 1 ELSE 1
  IN [sched  |-> live \cup {[sid |-> s, id |-> id, remaining |-> OUTPUT_FLUSH_MS]},
      timers |-> Put(timers, s, id)]

(* read_pty_output, the for-loop over the lines of one read: every line    *)
(* goes through handle_output_chunk.  pre holds the line whose prompt send *)
(* has just returned (it is appended first).  The segment runs until the   *)
(* next prompt line (send_permission_request awaits the send) or the end   *)
(* of the lines; a KeyError (session or buffer gone) is caught by the loop *)
(* and discards the remaining lines of the read.                           *)
ProcessLines(s, pre, lines) ==
  LET sessOk    == s \in DOMAIN sessions
      bufOk     == s \in DOMAIN output_buffers
      k         == FirstPromptIdx(lines)
      plainN    == IF k = 0 THEN Len(lines) ELSE k - 1
      preFails  == pre # <<>> /\ ~bufOk
      scanFails == \/ preFails
                   \/ lines # <<>> /\ (~sessOk \/ (plainN > 0 /\ ~bufOk))
      appended  == IF preFails THEN <<>>
                   ELSE IF scanFails THEN pre
                   ELSE pre \o SubSeq(lines, 1, plainN)
      creates   == ~scanFails /\ k > 0
      rt        == RestartTimer(s, scheduled, output_flush_timers)
      rid       == ctr.rid
  IN
  /\ IF appended # <<>>
     THEN /\ output_buffers' = [output_buffers EXCEPT ![s] = @ \o appended]
          /\ scheduled' = rt.sched
          /\ output_flush_timers' = rt.timers
          /\ burst' = [burst EXCEPT ![s] = @ \o appended]
     ELSE UNCHANGED <<output_buffers, scheduled, output_flush_timers, burst>>
  /\ IF creates
     THEN /\ permission_requests' =
               Put(permission_requests, rid,
                   NewRequest(s, "filesystem", Summary(lines[k])))
          /\ pending_requests' =
               Put(pending_requests, s,
                   Append(IF s \in DOMAIN pending_requests
                          THEN pending_requests[s] ELSE <<>>, rid))
          /\ sent' = Append(sent, PromptMessage(s, rid, Summary(lines[k])))
          /\ ctr' = [ctr EXCEPT !.rid = @ + 1]
          /\ reader' = [reader EXCEPT ![s] =
               [pc |-> "send", cur |-> lines[k],
                rest |-> SubSeq(lines, k + 1, Len(lines))]]
     ELSE /\ reader' = [reader EXCEPT ![s] = IdleReader]
          /\ UNCHANGED <<permission_requests, pending_requests, sent, ctr>>

(* a completion block that records the end and keeps the session in the   *)
(* registry: what the eviction at the end of the read loop differs from   *)
FinalizeKept(s) ==
  /\ reader' = [reader EXCEPT ![s] = [IdleReader EXCEPT !.pc = "done"]]
  /\ IF s \in DOMAIN sessions
     THEN /\ IF sessions[s].state \notin {"COMPLETED", "FAILED"}
             THEN /\ transitions' = transitions \cup
                       {<<sessions[s].state, "COMPLETED">>}
                  /\ outcome' = Put(outcome, s, Ended(sessions[s], "COMPLETED"))
             ELSE UNCHANGED <<transitions, outcome>>
          /\ pty_processes' = pty_processes \ {s}
          /\ output_buffers' = Del(output_buffers, s)
          /\ pending_requests' = Del(pending_requests, s)
          /\ sessions' = [sessions EXCEPT ![s] = Ended(@, "COMPLETED")]
     ELSE UNCHANGED <<transitions, outcome, pty_processes, output_buffers,
                      pending_requests, sessions>>
  /\ UNCHANGED <<permission_requests, output_flush_timers, scheduled, burst,
                 sent, ctr>>

(* read_pty_output, the block after the loop: the session is marked        *)
(* COMPLETED unless it is COMPLETED or FAILED, and evicted.                *)
Finalize(s) ==
  /\ reader' = [reader EXCEPT ![s] = [IdleReader EXCEPT !.pc = "done"]]
  /\ IF s \in DOMAIN sessions
     THEN /\ IF sessions[s].state \notin {"COMPLETED", "FAILED"}
             THEN /\ transitions' = transitions \cup
                       {<<sessions[s].state, "COMPLETED">>}
                  /\ outcome' = Put(outcome, s, Ended(sessions[s], "COMPLETED"))
             ELSE UNCHANGED <<transitions, outcome>>
          /\ pty_processes' = pty_processes \ {s}
          /\ output_buffers' = Del(output_buffers, s)
          /\ pending_requests' = Del(pending_requests, s)
          /\ sessions' = Del(sessions, s)
     ELSE UNCHANGED <<transitions, outcome, pty_processes, output_buffers,
                      pending_requests, sessions>>
  /\ UNCHANGED <<permission_requests, output_flush_timers, scheduled, burst,
                 sent, ctr>>

(* read_pty_output, one iteration of the loop: leave when the process is   *)
(* not alive (without reading what is left in the terminal), otherwise     *)
(* read what is available and handle it line by line.                      *)
ReadPoll(s) ==
  /\ s \in DOMAIN reader /\ reader[s].pc = "poll"
  /\ IF ~proc[s].alive
     THEN /\ Finalize(s)
          /\ UNCHANGED proc
     ELSE /\ proc[s].out # <<>>
          /\ proc' = [proc EXCEPT ![s].out = <<>>]
          /\ ProcessLines(s, <<>>, proc[s].out)
          /\ UNCHANGED <<sessions, pty_processes, outcome, transitions>>
  /\ UNCHANGED <<claimed_sessions, telegram_message_map, audit_log,
                 sessions_file, flush_tasks, last, others>>

(* a resume that marks the session as waiting for the operator once the   *)
(* prompt is out: what leaving the session RUNNING must differ from        *)
ReadResumeWaiting(s) ==
  /\ s \in DOMAIN reader /\ reader[s].pc = "send"
  /\ sessions' = IF s \in DOMAIN sessions
                 THEN [sessions EXCEPT ![s].state = "WAITING_PERMISSION"]
                 ELSE sessions
  /\ ProcessLines(s, <<reader[s].cur>>, reader[s].rest)
  /\ UNCHANGED <<pty_processes, outcome, transitions, proc,
                 claimed_sessions, telegram_message_map, audit_log,
                 sessions_file, flush_tasks, last, others>>

(* read_pty_output resumed when the prompt send of send_permission_request *)
(* returns: the prompt line is buffered, then the remaining lines follow.  *)
ReadResume(s) ==
  /\ s \in DOMAIN reader /\ reader[s].pc = "send"
  /\ ProcessLines(s, <<reader[s].cur>>, reader[s].rest)
  /\ UNCHANGED <<sessions, pty_processes, outcome, transitions, proc,
                 claimed_sessions, telegram_message_map, audit_log,
                 sessions_file, flush_tasks, last, others>>

(* ---------------------------------------------------------- flush_output *)
(* the timer callback: asyncio.create_task(self.flush_output(session_id)) *)
TimerFire(h) ==
  /\ h \in scheduled /\ h.remaining = 0
  /\ scheduled' = scheduled \ {h}
  /\ flush_tasks' = flush_tasks \cup {[sid |-> h.sid, id |-> h.id, stage |-> "ready"]}
  /\ UNCHANGED <<progVars, proc, reader, sent, outcome, transitions, burst,
                 last, ctr>>

(* flush_output up to the awaited send: nothing for a missing or empty     *)
(* buffer, otherwise the joined chunks go to send_output_chunk.            *)
FlushBegin(t) ==
  /\ t \in flush_tasks /\ t.stage = "ready"
  /\ IF t.sid \notin DOMAIN output_buffers \/ output_buffers[t.sid] = <<>>
     THEN /\ flush_tasks' = flush_tasks \ {t}
          /\ UNCHANGED <<sent, burst>>
     ELSE /\ flush_tasks' = (flush_tasks \ {t}) \cup {[t EXCEPT !.stage = "sending"]}
          /\ sent' = Append(sent,
               OutputMessage(t.sid, "stdout", Join(output_buffers[t.sid])))
          /\ burst' = [burst EXCEPT ![t.sid] = <<>>]
  /\ UNCHANGED <<progVars, proc, scheduled, reader, outcome, transitions,
                 last, ctr>>

(* flush_output after the send returned: self.output_buffers[sid] = []    *)
FlushEnd(t) ==
  /\ t \in flush_tasks /\ t.stage = "sending"
  /\ flush_tasks' = flush_tasks \ {t}
  /\ output_buffers' = Put(output_buffers, t.sid, <<>>)
  /\ UNCHANGED <<sessions, permission_requests, pending_requests,
                 output_flush_timers, pty_processes, claimed_sessions,
                 telegram_message_map, audit_log, sessions_file, proc,
                 scheduled, reader, sent, outcome, transitions, burst, last,
                 others, ctr>>

(* ------------------------------------------------------ inbound messages *)
(* the texts an operator sends, and str.isdigit / int / str on them *)
Texts      == {"1", "3", "7", "hi"}
IsDigit(t) == t \in {"1", "3", "7"}
IntOf(t)   == CASE t = "1" -> 1 [] t = "3" -> 3 [] t = "7" -> 7
StrOf(n)   == CASE n = 1 -> "1" [] n = 2 -> "2" [] n = 3 -> "3" [] n = 7 -> "7"

(* is_authorized *)
IsAuthorized(u) == IF allowed_user_ids = {} THEN TRUE ELSE u \in allowed_user_ids

(* the messages an operator can reply to: a permission prompt or a relayed *)
(* output message that the Messaging Port was given                        *)
ReplyTargets ==
  {NoTarget}
  \cup {[kind |-> sent[i].kind, rid |-> sent[i].rid, sid |-> sent[i].sid] :
          i \in 1..Len(sent)}

(* "Permission request" in reply_to_text *)
IsPermissionPrompt(tgt) == tgt.kind = "prompt"

(* extract_request_id on the replied-to text: the [RID:...] token, 0 for None *)
extract_request_id(tgt) == IF tgt.kind = "prompt" THEN tgt.rid ELSE 0

(* an extraction that never finds a token: what honouring the reply-to     *)
(* binding must differ from                                                *)
extract_no_session(tgt) == 0

(* extract_session_id on the replied-to text: the [SID:...] token, 0 for None *)
extract_session_id(tgt) == IF tgt.kind \in {"prompt", "output"} THEN tgt.sid ELSE 0

(* a remove that leaves the list as it is: the behaviour a correct queue   *)
(* must differ from                                                        *)
RemoveNone(seq, x) == seq

(* a remove that drops the newest entry whatever it is asked for: what     *)
(* removal by value must differ from                                       *)
RemoveNewest(seq, x) == SubSeq(seq, 1, Len(seq) - 1)

(* list.remove(x): drops the first occurrence *)
RemoveFirst(seq, x) ==
  IF \E i \in 1..Len(seq) : seq[i] = x
  THEN LET i == CHOOSE j \in 1..Len(seq) : seq[j] = x /\ \A m \in 1..(j-1) : seq[m] # x
       IN SubSeq(seq, 1, i - 1) \o SubSeq(seq, i + 1, Len(seq))
  ELSE seq

(* a resolve that writes the decision to the oldest process it supervises  *)
(* instead of the request's own: what forwarding to the owner must differ  *)
(* from                                                                    *)
resolve_to_oldest(rid, code, u, wr) ==
  LET r == permission_requests[rid]
      s == r.session_id
      t == IF pty_processes = {} THEN s
           ELSE CHOOSE x \in pty_processes : \A y \in pty_processes : x <= y
      writes == t \in DOMAIN sessions /\ t \in pty_processes
                /\ (proc[t].alive \/ wr)
  IN
  /\ permission_requests' = [permission_requests EXCEPT ![rid] =
       [r EXCEPT !.resolved = TRUE, !.decision_code = code, !.decided_by = u,
                 !.decided_at = Len(audit_log) + 1]]
  /\ audit_log' = Append(audit_log,
       [event |-> "permission.resolve", session_id |-> s, user_id |-> u,
        request_id |-> rid, decision |-> code])
  /\ proc' = IF writes THEN [proc EXCEPT ![t].stdin = Append(@, StrOf(code))]
             ELSE proc
  /\ pending_requests' =
       IF s \in DOMAIN pending_requests
       THEN [pending_requests EXCEPT ![s] = RemoveFirst(@, rid)]
       ELSE pending_requests

(* a resolution that takes effect only when the decision reaches the       *)
(* process: what consuming the decision on a failed write must differ from *)
resolve_if_written(rid, code, u, wr) ==
  LET r      == permission_requests[rid]
      s      == r.session_id
      writes == s \in DOMAIN sessions /\ s \in pty_processes
                /\ (proc[s].alive \/ wr)
  IN
  IF writes
  THEN /\ permission_requests' = [permission_requests EXCEPT ![rid] =
            [r EXCEPT !.resolved = TRUE, !.decision_code = code, !.decided_by = u,
                      !.decided_at = Len(audit_log) + 1]]
       /\ audit_log' = Append(audit_log,
            [event |-> "permission.resolve", session_id |-> s, user_id |-> u,
             request_id |-> rid, decision |-> code])
       /\ proc' = [proc EXCEPT ![s].stdin = Append(@, StrOf(code))]
       /\ pending_requests' =
            IF s \in DOMAIN pending_requests
            THEN [pending_requests EXCEPT ![s] = RemoveFirst(@, rid)]
            ELSE pending_requests
  ELSE UNCHANGED <<permission_requests, audit_log, proc, pending_requests>>

(* resolve_permission_request; wr is whether a write to a process that has *)
(* already exited still goes through                                       *)
resolve_permission_request(rid, code, u, wr) ==
  LET r      == permission_requests[rid]
      s      == r.session_id
      writes == s \in DOMAIN sessions /\ s \in pty_processes
                /\ (proc[s].alive \/ wr)
  IN
  /\ permission_requests' = [permission_requests EXCEPT ![rid] =
       [r EXCEPT !.resolved = TRUE, !.decision_code = code, !.decided_by = u,
                 !.decided_at = Len(audit_log) + 1]]
  /\ audit_log' = Append(audit_log,
       [event |-> "permission.resolve", session_id |-> s, user_id |-> u,
        request_id |-> rid, decision |-> code])
  /\ proc' = IF writes THEN [proc EXCEPT ![s].stdin = Append(@, StrOf(code))]
             ELSE proc
  /\ pending_requests' =
       IF s \in DOMAIN pending_requests
       THEN [pending_requests EXCEPT ![s] = RemoveFirst(@, rid)]
       ELSE pending_requests

(* handle_permission_reply: the reply-to path *)
handle_permission_reply(rid, u, text, wr) ==
  IF ~IsDigit(text)
  THEN /\ last' = [op |-> "handle_reply", reply |-> "Please reply with a number"]
       /\ UNCHANGED <<permission_requests, audit_log, proc, pending_requests>>
  ELSE /\ resolve_permission_request(rid, IntOf(text), u, wr)
       /\ last' = [op |-> "handle_reply", reply |-> "Permission decision recorded"]

(* handle_reply, the bare numeric path: the requests that the scan accepts *)
Resolvable(code) ==
  {rid \in DOMAIN permission_requests :
     LET r == permission_requests[rid] IN
       /\ r.session_id \in DOMAIN pending_requests
       /\ \E i \in 1..Len(pending_requests[r.session_id]) :
            pending_requests[r.session_id][i] = rid
       /\ ~r.resolved
       /\ code \in r.options}

(* the scan answering with the newest accepted request: the behaviour      *)
(* FIFO correlation must differ from                                       *)
LastResolvable(code) ==
  CHOOSE rid \in Resolvable(code) : \A q \in Resolvable(code) : rid >= q

(* self.permission_requests.items() iterates in insertion order, which is  *)
(* creation order: the first accepted request                              *)
FirstResolvable(code) ==
  CHOOSE rid \in Resolvable(code) : \A q \in Resolvable(code) : rid <= q

(* a forward that records the input but never writes it to the process:   *)
(* what delivery must differ from                                          *)
forward_dropped(s, text, u) ==
  /\ audit_log' = Append(audit_log,
       [event |-> "input.forwarded", session_id |-> s, user_id |-> u,
        request_id |-> 0, decision |-> None])
  /\ UNCHANGED <<sessions, pty_processes, transitions, outcome, proc>>

(* forward_to_session *)
forward_to_session(s, text, u) ==
  IF s \notin pty_processes
  THEN /\ sessions' =
            IF s \in DOMAIN sessions
               /\ sessions[s].state \in {"FAILED", "COMPLETED", "CANCELLED"}
            THEN Del(sessions, s) ELSE sessions
       /\ UNCHANGED <<pty_processes, transitions, outcome, audit_log, proc>>
  ELSE IF ~proc[s].alive
  THEN /\ IF s \in DOMAIN sessions
          THEN /\ transitions' = transitions \cup {<<sessions[s].state, "FAILED">>}
               /\ outcome' = Put(outcome, s, Ended(sessions[s], "FAILED"))
          ELSE UNCHANGED <<transitions, outcome>>
       /\ pty_processes' = pty_processes \ {s}
       /\ sessions' = Del(sessions, s)
       /\ UNCHANGED <<audit_log, proc>>
  ELSE /\ audit_log' = Append(audit_log,
            [event |-> "input.forwarded", session_id |-> s, user_id |-> u,
             request_id |-> 0, decision |-> None])
       /\ proc' = [proc EXCEPT ![s].stdin = Append(@, text)]
       /\ UNCHANGED <<sessions, pty_processes, transitions, outcome>>

(* handle_reply, auto-route: the sessions in an active state *)
active_sessions ==
  {s \in DOMAIN sessions : sessions[s].state \in {"RUNNING", "WAITING_PERMISSION"}}

(* handle_reply *)
handle_reply(u, text, tgt, wr) ==
  LET said(reply) == [op |-> "handle_reply", reply |-> reply]
      code  == IntOf(text)
      bound == extract_session_id(tgt)
      sid   == IF bound # 0 THEN bound
               ELSE IF u \in DOMAIN claimed_sessions THEN claimed_sessions[u]
               ELSE IF Cardinality(active_sessions) = 1
                    THEN CHOOSE s \in active_sessions : TRUE
               ELSE 0
  IN
  /\ ctr.input < ctr.max_input
  /\ ctr' = [ctr EXCEPT !.input = @ + 1]
  /\ UNCHANGED <<output_buffers, output_flush_timers, claimed_sessions,
                 sessions_file, scheduled, flush_tasks, reader, sent, burst,
                 others>>
  /\ IF ~IsAuthorized(u)
     THEN /\ last' = said("Unauthorized")
          /\ UNCHANGED <<sessions, permission_requests, pending_requests,
                         pty_processes, telegram_message_map, audit_log, proc,
                         outcome, transitions>>
     ELSE IF tgt.kind # "none" /\ IsPermissionPrompt(tgt)
             /\ extract_request_id(tgt) # 0
             /\ extract_request_id(tgt) \in DOMAIN permission_requests
     THEN /\ handle_permission_reply(extract_request_id(tgt), u, text, wr)
          /\ UNCHANGED <<sessions, pty_processes, telegram_message_map,
                         outcome, transitions>>
     ELSE IF IsDigit(text)
     THEN IF Resolvable(code) # {}
          THEN /\ resolve_permission_request(FirstResolvable(code), code, u, wr)
               /\ telegram_message_map' =
                    Put(telegram_message_map, ctr.input + 1, FirstResolvable(code))
               /\ last' = said("")
               /\ UNCHANGED <<sessions, pty_processes, outcome, transitions>>
          ELSE /\ last' = said("No pending permission request found for your reply")
               /\ UNCHANGED <<sessions, permission_requests, pending_requests,
                              pty_processes, telegram_message_map, audit_log,
                              proc, outcome, transitions>>
     ELSE IF sid = 0
     THEN /\ last' = said(IF Cardinality(active_sessions) > 1
                          THEN "Multiple active sessions"
                          ELSE "No active sessions")
          /\ UNCHANGED <<sessions, permission_requests, pending_requests,
                         pty_processes, telegram_message_map, audit_log, proc,
                         outcome, transitions>>
     ELSE /\ forward_to_session(sid, text, u)
          /\ last' = said("")
          /\ UNCHANGED <<permission_requests, pending_requests,
                         telegram_message_map>>

(* cancel_command: /cancel <sid> *)
cancel_command(u, s) ==
  LET said(reply) == [op |-> "cancel_command", reply |-> reply]
  IN
  /\ ctr.input < ctr.max_input
  /\ ctr' = [ctr EXCEPT !.input = @ + 1]
  /\ UNCHANGED <<permission_requests, pending_requests, output_buffers,
                 output_flush_timers, pty_processes, claimed_sessions,
                 telegram_message_map, audit_log, sessions_file, proc, scheduled,
                 flush_tasks, reader, sent, outcome, burst, others>>
  /\ IF ~IsAuthorized(u)
     THEN /\ last' = said("Unauthorized")
          /\ UNCHANGED <<sessions, transitions>>
     ELSE IF s \notin DOMAIN sessions
     THEN /\ last' = said("not found")
          /\ UNCHANGED <<sessions, transitions>>
     ELSE IF sessions[s].state \in {"RUNNING", "WAITING_PERMISSION"}
     THEN /\ sessions' = [sessions EXCEPT ![s].state = "CANCELLED"]
          /\ transitions' = transitions \cup {<<sessions[s].state, "CANCELLED">>}
          /\ last' = said("Cancelled")
     ELSE /\ last' = said("not running")
          /\ UNCHANGED <<sessions, transitions>>

(* ------------------------------------------------------------- commands *)
(* what a command that touches nothing but its answer leaves alone *)
registries == <<sessions, permission_requests, pending_requests, output_buffers,
                output_flush_timers, pty_processes, claimed_sessions,
                telegram_message_map, audit_log, sessions_file, proc>>

tasks == <<scheduled, flush_tasks, reader, sent, outcome, transitions, burst,
           others>>

(* an inbound update is taken from the operator's messages *)
Inbound ==
  /\ ctr.input < ctr.max_input
  /\ ctr' = [ctr EXCEPT !.input = @ + 1]

(* start_command: /start *)
start_command(u) ==
  /\ Inbound
  /\ last' = [op |-> "start_command", reply |-> "CLAUDE bot is running"]
  /\ UNCHANGED <<registries, tasks>>

(* help_command: /help *)
help_command(u) ==
  /\ Inbound
  /\ last' = [op |-> "help_command", reply |-> "Commands"]
  /\ UNCHANGED <<registries, tasks>>

(* status_command: /status *)
status_command(u) ==
  /\ Inbound
  /\ last' = [op |-> "status_command",
              reply |-> IF ~IsAuthorized(u) THEN "Unauthorized" ELSE "Active sessions"]
  /\ UNCHANGED <<registries, tasks>>

(* sessions_command: /sessions *)
sessions_command(u) ==
  /\ Inbound
  /\ last' = [op |-> "sessions_command",
              reply |-> IF ~IsAuthorized(u) THEN "Unauthorized" ELSE "All sessions"]
  /\ UNCHANGED <<registries, tasks>>

(* send_command: /send <sid> <text> *)
send_command(u, s, text) ==
  LET said(reply) == [op |-> "send_command", reply |-> reply] IN
  /\ Inbound
  /\ UNCHANGED <<permission_requests, pending_requests, output_buffers,
                 output_flush_timers, claimed_sessions, telegram_message_map,
                 sessions_file, scheduled, flush_tasks, reader, sent, burst,
                 others>>
  /\ IF ~IsAuthorized(u)
     THEN /\ last' = said("Unauthorized")
          /\ UNCHANGED <<sessions, pty_processes, transitions, outcome,
                         audit_log, proc>>
     ELSE IF s \notin DOMAIN sessions
     THEN /\ last' = said("not found")
          /\ UNCHANGED <<sessions, pty_processes, transitions, outcome,
                         audit_log, proc>>
     ELSE IF s \notin pty_processes
     THEN /\ last' = said("not properly initialized")
          /\ UNCHANGED <<sessions, pty_processes, transitions, outcome,
                         audit_log, proc>>
     ELSE /\ forward_to_session(s, text, u)
          /\ last' = said("Sent")

(* a claim that keeps the entry the operator already has *)
claim_once(u, s) ==
  LET said(reply) == [op |-> "claim_command", reply |-> reply] IN
  /\ Inbound
  /\ UNCHANGED <<sessions, permission_requests, pending_requests, output_buffers,
                 output_flush_timers, pty_processes, telegram_message_map,
                 audit_log, sessions_file, proc, tasks>>
  /\ IF ~IsAuthorized(u)
     THEN /\ last' = said("Unauthorized")
          /\ UNCHANGED claimed_sessions
     ELSE IF s \notin DOMAIN sessions
     THEN /\ last' = said("not found")
          /\ UNCHANGED claimed_sessions
     ELSE /\ claimed_sessions' = IF u \in DOMAIN claimed_sessions
                                THEN claimed_sessions
                                ELSE Put(claimed_sessions, u, s)
          /\ last' = said("Claimed")

(* claim_command: /claim <sid> *)
claim_command(u, s) ==
  LET said(reply) == [op |-> "claim_command", reply |-> reply] IN
  /\ Inbound
  /\ UNCHANGED <<sessions, permission_requests, pending_requests, output_buffers,
                 output_flush_timers, pty_processes, telegram_message_map,
                 audit_log, sessions_file, proc, tasks>>
  /\ IF ~IsAuthorized(u)
     THEN /\ last' = said("Unauthorized")
          /\ UNCHANGED claimed_sessions
     ELSE IF s \notin DOMAIN sessions
     THEN /\ last' = said("not found")
          /\ UNCHANGED claimed_sessions
     ELSE /\ claimed_sessions' = Put(claimed_sessions, u, s)
          /\ last' = said("Claimed")

(* release_command: /release *)
release_command(u) ==
  LET said(reply) == [op |-> "release_command", reply |-> reply] IN
  /\ Inbound
  /\ UNCHANGED <<sessions, permission_requests, pending_requests, output_buffers,
                 output_flush_timers, pty_processes, telegram_message_map,
                 audit_log, sessions_file, proc, tasks>>
  /\ IF ~IsAuthorized(u)
     THEN /\ last' = said("Unauthorized")
          /\ UNCHANGED claimed_sessions
     ELSE IF u \in DOMAIN claimed_sessions
     THEN /\ claimed_sessions' = Del(claimed_sessions, u)
          /\ last' = said("Released")
     ELSE /\ last' = said("No session claimed")
          /\ UNCHANGED claimed_sessions

(* the keys an operator names in /keys *)
Keys == {"CTRL_C", "CTRL_D", "F1"}

(* send_ctrl_c / send_ctrl_d: sendintr() / sendeof() on a live process *)
send_key(s, key) ==
  IF s \in pty_processes /\ proc[s].alive
  THEN proc' = [proc EXCEPT ![s].stdin = Append(@, key)]
  ELSE proc' = proc

(* keys_command: /keys <sid> <key> *)
keys_command(u, s, key) ==
  LET said(reply) == [op |-> "keys_command", reply |-> reply] IN
  /\ Inbound
  /\ UNCHANGED <<sessions, permission_requests, pending_requests, output_buffers,
                 output_flush_timers, pty_processes, claimed_sessions,
                 telegram_message_map, audit_log, sessions_file, tasks>>
  /\ IF ~IsAuthorized(u)
     THEN /\ last' = said("Unauthorized")
          /\ UNCHANGED proc
     ELSE IF s \notin DOMAIN sessions
     THEN /\ last' = said("not found")
          /\ UNCHANGED proc
     ELSE IF key \in {"CTRL_C", "CTRL_D"}
     THEN /\ send_key(s, key)
          /\ last' = said("")
     ELSE /\ last' = said("Unknown key")
          /\ UNCHANGED proc

(* a stderr chunk treated like a stdout chunk, buffered behind the         *)
(* debounce timer: the behaviour immediate forwarding must differ from     *)
StderrChunkDebounced(s, l) ==
  LET rt == RestartTimer(s, scheduled, output_flush_timers) IN
  /\ s \in DOMAIN sessions /\ s \in DOMAIN output_buffers
  /\ ctr.emit < ctr.max_emit
  /\ ctr' = [ctr EXCEPT !.emit = @ + 1]
  /\ output_buffers' = [output_buffers EXCEPT ![s] = Append(@, l)]
  /\ scheduled' = rt.sched
  /\ output_flush_timers' = rt.timers
  /\ UNCHANGED <<sessions, permission_requests, pending_requests,
                 pty_processes, claimed_sessions, telegram_message_map,
                 audit_log, sessions_file, others, proc, flush_tasks,
                 reader, sent, outcome, transitions, burst, last>>

(* handle_output_chunk(session_id, 'stderr', text): no detector; the chunk *)
(* is buffered and handed to send_output_chunk at once.                    *)
StderrChunk(s, l) ==
  /\ s \in DOMAIN sessions /\ s \in DOMAIN output_buffers
  /\ ctr.emit < ctr.max_emit
  /\ ctr' = [ctr EXCEPT !.emit = @ + 1]
  /\ output_buffers' = [output_buffers EXCEPT ![s] = Append(@, l)]
  /\ sent' = Append(sent, OutputMessage(s, "stderr", <<l>>))
  /\ UNCHANGED <<sessions, permission_requests, pending_requests,
                 output_flush_timers, pty_processes, claimed_sessions,
                 telegram_message_map, audit_log, sessions_file,
                 others, proc, scheduled, flush_tasks, reader, outcome,
                 transitions, burst, last>>

(* ------------------------------------------------- tokens in message text *)
(* Message text as a sequence of pieces: a bracket, the letters "SID:" or  *)
(* "RID:", or any other run of characters without a bracket.               *)
IdPieces == {"a", "[", "]", "SID:"}

(* the ids a token may be asked to carry, the empty one included *)
Ids == UNION {[1..n -> IdPieces] : n \in 0..MaxIdLen}

(* the text of a chunk a process may write: nothing, or a token look-alike *)
Bodies == {<<>>, <<"[", "SID:", "a", "]">>, <<"a", "a", "a", "a">>}

(* Optional[str]: None *)
NoToken == <<"None">>

(* f"[{tag}{id}]" *)
Token(tag, id) == <<"[", tag>> \o id \o <<"]">>

(* the longest run without "]" that starts at position b; b - 1 if none *)
RunEnd(text, b) ==
  LET ends == {e \in (b - 1)..Len(text) : \A k \in b..e : text[k] # "]"}
  IN CHOOSE e \in ends : \A x \in ends : x <= e

(* the positions where re.search(r'\[TAG([^\]]+)\]') can match: "[TAG", a  *)
(* non-empty greedy run without "]", then "]"                              *)
MatchStarts(tag, text) ==
  {i \in 1..(Len(text) - 1) :
     /\ text[i] = "[" /\ text[i + 1] = tag
     /\ RunEnd(text, i + 2) >= i + 2
     /\ RunEnd(text, i + 2) < Len(text)}

(* a search that reports the last match instead of the first: what         *)
(* re.search must differ from                                              *)
search_last_token(tag, text) ==
  LET m == MatchStarts(tag, text) IN
  IF m = {} THEN NoToken
  ELSE LET i == CHOOSE j \in m : \A x \in m : x <= j
       IN SubSeq(text, i + 2, RunEnd(text, i + 2))

(* re.search(...).group(1): the leftmost match, None without a match *)
search_token(tag, text) ==
  LET m == MatchStarts(tag, text) IN
  IF m = {} THEN NoToken
  ELSE LET i == CHOOSE j \in m : \A x \in m : j <= x
       IN SubSeq(text, i + 2, RunEnd(text, i + 2))

(* extract_session_id and extract_request_id on message text *)
extract_sid_text(text) == search_token("SID:", text)

extract_rid_text(text) == search_token("RID:", text)

(* send_output_chunk: formatted_text, cut when it is longer than the cap *)
OutputText(sid, body) ==
  LET formatted == Token("SID:", sid) \o <<" STDOUT: ">> \o body IN
  IF Len(formatted) > TextCap
  THEN SubSeq(formatted, 1, TextCap - TextKeep) \o <<" ", "[", "TRUNCATED", "]">>
  ELSE formatted

(* send_permission_request: message_text *)
PromptText(rid, sid, summary) ==
  <<"Permission request ">> \o Token("RID:", rid) \o Token("SID:", sid)
    \o summary \o <<"Options">>

(* text is handed to the Messaging Port and the operator replies to it:    *)
(* handle_reply applies both extractions to the replied-to text            *)
Probe(kind, sid, rid, text) ==
  /\ last = NoOp
  /\ last' = [op |-> kind, reply |-> "", sid |-> sid, rid |-> rid, text |-> text,
              got_sid |-> extract_sid_text(text),
              got_rid |-> extract_rid_text(text)]
  /\ UNCHANGED <<registries, tasks, ctr>>

OutputProbe(sid, body) == Probe("output", sid, <<>>, OutputText(sid, body))

PromptProbe(rid, sid, body) ==
  Probe("prompt", sid, rid, PromptText(rid, sid, body))

PlainProbe(body) == Probe("plain", <<>>, <<>>, <<"a ">> \o body)

(* -------------------------------------------------------- specification *)
(* the supervised processes, the read loops and the output aggregator *)
NextOutput ==
  \/ \E ok \in BOOLEAN : RunCommand(ok, TRUE)
  \/ \E s \in SIDs, l \in Lines : ProcEmit(s, l)
  \/ \E s \in SIDs : ProcExit(s)
  \/ Tick
  \/ \E s \in SIDs : ReadPoll(s)
  \/ \E s \in SIDs : ReadResume(s)
  \/ \E h \in scheduled : TimerFire(h)
  \/ \E t \in flush_tasks : FlushBegin(t)
  \/ \E t \in flush_tasks : FlushEnd(t)

SpecOutput == InitWith(MaxOutput, 0, {}) /\ [][NextOutput]_vars

(* the same with stderr chunks handed to handle_output_chunk *)
NextStderr ==
  \/ NextOutput
  \/ \E s \in SIDs, l \in {PlainLine, LongLine} : StderrChunk(s, l)

SpecStderr == InitWith(MaxEmit, 0, {}) /\ [][NextStderr]_vars

(* the supervised processes, the read loops and the inbound handlers *)
NextBroker ==
  \/ \E ok \in BOOLEAN : RunCommand(ok, TRUE)
  \/ \E s \in SIDs, l \in {PlainLine, PromptLine} : ProcEmit(s, l)
  \/ \E s \in SIDs : ProcExit(s)
  \/ \E s \in SIDs : ReadPoll(s)
  \/ \E s \in SIDs : ReadResume(s)
  \/ \E u \in Users, text \in Texts, tgt \in ReplyTargets, wr \in BOOLEAN :
       handle_reply(u, text, tgt, wr)
  \/ \E u \in Users, s \in SIDs : cancel_command(u, s)

SpecBroker == Init /\ [][NextBroker]_vars

(* run_command waiting for its session to leave the registry while the    *)
(* operators cancel, claim, forward input and answer prompts; the asyncio *)
(* event loop resumes every read loop that can run                        *)
NextWait ==
  \/ \E ok \in BOOLEAN : RunCommand(ok, TRUE)
  \/ \E s \in SIDs : ProcEmit(s, PromptLine)
  \/ \E s \in SIDs : ProcExit(s)
  \/ \E s \in SIDs : ReadPoll(s)
  \/ \E s \in SIDs : ReadResume(s)
  \/ \E u \in Users, text \in Texts, tgt \in ReplyTargets, wr \in BOOLEAN :
       handle_reply(u, text, tgt, wr)
  \/ \E u \in Users, s \in SIDs : cancel_command(u, s)
  \/ \E u \in Users, s \in SIDs : claim_command(u, s)

SpecWait ==
  /\ InitWith(OneEmit, OneInput, {"u1"})
  /\ [][NextWait]_vars
  /\ \A s \in SIDs : WF_vars(ReadPoll(s)) /\ WF_vars(ReadResume(s))

(* processes that write permission prompts only, and the reply handler *)
NextReply ==
  \/ \E ok \in BOOLEAN : RunCommand(ok, TRUE)
  \/ \E s \in SIDs : ProcEmit(s, PromptLine)
  \/ \E s \in SIDs : ProcExit(s)
  \/ \E s \in SIDs : ReadPoll(s)
  \/ \E s \in SIDs : ReadResume(s)
  \/ \E u \in Users, text \in Texts, tgt \in ReplyTargets, wr \in BOOLEAN :
       handle_reply(u, text, tgt, wr)

SpecReply == InitWith(MaxEmit, OneInput, {"u1"}) /\ [][NextReply]_vars

(* one prompt at most, and more than one numeric message of an authorized  *)
(* operator after it                                                       *)
NextConsumed ==
  \/ RunCommand(TRUE, TRUE)
  \/ \E s \in SIDs : ProcEmit(s, PromptLine)
  \/ \E s \in SIDs : ProcExit(s)
  \/ \E s \in SIDs : ReadPoll(s)
  \/ \E s \in SIDs : ReadResume(s)
  \/ \E u \in {x \in Users : IsAuthorized(x)}, text \in {t \in Texts : IsDigit(t)},
        tgt \in ReplyTargets, wr \in BOOLEAN : handle_reply(u, text, tgt, wr)

SpecConsumed == InitWith(OneEmit, MaxInputs, {"u1"}) /\ [][NextConsumed]_vars

(* the supervised processes and the read loops with the detector, the     *)
(* operators silent                                                        *)
NextDetect ==
  \/ \E ok \in BOOLEAN : RunCommand(ok, TRUE)
  \/ \E s \in SIDs, l \in {PlainLine, PromptLine, MultiLine} : ProcEmit(s, l)
  \/ \E s \in SIDs : ProcExit(s)
  \/ \E s \in SIDs : ReadPoll(s)
  \/ \E s \in SIDs : ReadResume(s)

SpecDetect == InitWith(MaxEmit, 0, {}) /\ [][NextDetect]_vars

(* the same, with the event loop running every read loop that can run *)
SpecQuiet ==
  /\ InitWith(MaxEmit, 0, {})
  /\ [][NextDetect]_vars
  /\ \A s \in SIDs : WF_vars(ReadPoll(s)) /\ WF_vars(ReadResume(s))

(* one line of plain output relayed, claims, and free text *)
NextRoute ==
  \/ \E ok \in BOOLEAN : RunCommand(ok, TRUE)
  \/ \E s \in SIDs : ProcEmit(s, PlainLine)
  \/ \E s \in SIDs : ProcExit(s)
  \/ \E s \in SIDs : ReadPoll(s)
  \/ Tick
  \/ \E h \in scheduled : TimerFire(h)
  \/ \E t \in flush_tasks : FlushBegin(t)
  \/ \E t \in flush_tasks : FlushEnd(t)
  \/ \E u \in Users, s \in SIDs : claim_command(u, s)
  \/ \E u \in Users : release_command(u)
  \/ \E u \in Users, text \in {t \in Texts : ~IsDigit(t)}, tgt \in ReplyTargets,
        wr \in BOOLEAN : handle_reply(u, text, tgt, wr)

SpecRoute == InitWith(OneEmit, MaxInputs, {"u1"}) /\ [][NextRoute]_vars

(* every command and message handler, the processes silent *)
NextCommands ==
  \/ \E ok \in BOOLEAN : RunCommand(ok, TRUE)
  \/ \E s \in SIDs : ProcExit(s)
  \/ \E s \in SIDs : ReadPoll(s)
  \/ \E u \in Users : start_command(u)
  \/ \E u \in Users : help_command(u)
  \/ \E u \in Users : status_command(u)
  \/ \E u \in Users : sessions_command(u)
  \/ \E u \in Users, s \in SIDs, text \in Texts : send_command(u, s, text)
  \/ \E u \in Users, s \in SIDs : claim_command(u, s)
  \/ \E u \in Users : release_command(u)
  \/ \E u \in Users, s \in SIDs : cancel_command(u, s)
  \/ \E u \in Users, s \in SIDs, key \in Keys : keys_command(u, s, key)
  \/ \E u \in Users, text \in Texts, tgt \in ReplyTargets, wr \in BOOLEAN :
       handle_reply(u, text, tgt, wr)

SpecCommands == Init /\ [][NextCommands]_vars

(* sessions created, run and ended, claims, and restarts of the supervisor *)
NextRegistry ==
  \/ \E ok, saved \in BOOLEAN : RunCommand(ok, saved)
  \/ \E saved \in BOOLEAN : CreateSession(saved)
  \/ \E s \in SIDs : ProcExit(s)
  \/ \E s \in SIDs : ReadPoll(s)
  \/ \E u \in Users, s \in SIDs : claim_command(u, s)
  \/ \E u \in Users, s \in SIDs : cancel_command(u, s)
  \/ Restart

SpecRegistry == InitWith(0, MaxInputs, {}) /\ [][NextRegistry]_vars

(* outbound texts built around ids and read back by the inbound parser *)
NextTokens ==
  /\ last = NoOp
  /\ \/ \E sid \in Ids, body \in Bodies : OutputProbe(sid, body)
     \/ \E rid \in Ids, sid \in Ids, body \in Bodies : PromptProbe(rid, sid, body)
     \/ \E body \in Bodies : PlainProbe(body)

SpecTokens == InitWith(0, 0, {}) /\ [][NextTokens]_vars

(* sessions created and started as separate requests *)
NextStart ==
  \/ CreateSession(TRUE)
  \/ \E s \in SIDs, ok \in BOOLEAN : StartSession(s, ok)
  \/ \E s \in SIDs : ProcEmit(s, PlainLine)
  \/ \E s \in SIDs : ProcExit(s)
  \/ \E s \in SIDs : ReadPoll(s)
  \/ \E s \in SIDs : OrphanEnd(s)

SpecStart == InitWith(MaxEmit, 0, {}) /\ [][NextStart]_vars

(* ------------------------------------------------------- TelegramBridge *)
MaxUpdates == 3

ChatId == "ops"

OtherChat == "elsewhere"

(* FORWARD_PREFIX unset, or a prefix; texts are sequences of words *)
Prefixes == {<<>>, <<"/c">>}

(* an update of getUpdates: whether it has a 'message', whether the message *)
(* has a 'chat', the chat's 'id' ("None" when absent), whether the message *)
(* has a 'text', and the text                                              *)
Update(message, chat, id, has_text, text) ==
  [message |-> message, chat |-> chat, chat_id |-> id, has_text |-> has_text,
   text |-> text]

UpdateShapes ==
  {Update(FALSE, FALSE, "None", FALSE, <<>>),
   Update(TRUE, FALSE, "None", TRUE, <<"/c", "ls">>),
   Update(TRUE, TRUE, "None", TRUE, <<"/c", "ls">>),
   Update(TRUE, TRUE, OtherChat, TRUE, <<"/c", "ls">>),
   Update(TRUE, TRUE, ChatId, FALSE, <<>>),
   Update(TRUE, TRUE, ChatId, TRUE, <<"ls">>),
   Update(TRUE, TRUE, ChatId, TRUE, <<"/c", "ls">>)}

(* str.startswith *)
startswith(text, prefix) ==
  /\ Len(prefix) <= Len(text)
  /\ SubSeq(text, 1, Len(prefix)) = prefix

(* a filter that forwards the messages of every chat *)
handle_any_chat(handler, prefix, upd) ==
  IF ~handler THEN FALSE
  ELSE IF ~upd.message THEN FALSE
  ELSE IF ~upd.chat THEN FALSE
  ELSE IF upd.chat_id = "None" THEN FALSE
  ELSE IF ~upd.has_text THEN FALSE
  ELSE IF prefix # <<>> /\ ~startswith(upd.text, prefix) THEN FALSE
  ELSE TRUE

(* handle_incoming_message up to the call of the handler: whether the      *)
(* handler is invoked with the update's text                               *)
handle_incoming_message(handler, prefix, upd) ==
  IF ~handler THEN FALSE
  ELSE IF ~upd.message THEN FALSE
  ELSE IF ~upd.chat THEN FALSE
  ELSE IF upd.chat_id = "None" THEN FALSE
  ELSE IF upd.chat_id # ChatId THEN FALSE
  ELSE IF ~upd.has_text THEN FALSE
  ELSE IF prefix # <<>> /\ ~startswith(upd.text, prefix) THEN FALSE
  ELSE TRUE

(* a batch loop that a raising handler leaves: the updates after it are    *)
(* not handled                                                             *)
RECURSIVE ProcessUntilRaise(_, _, _)
ProcessUntilRaise(b, i, raises) ==
  IF i > Len(b.updates) THEN b
  ELSE LET invoked == handle_incoming_message(b.handler, b.forward_prefix,
                                              b.updates[i])
           after   == [b EXCEPT !.seen = Append(@, i),
                                !.handled = IF invoked
                                            THEN Append(@, [update_id |-> i,
                                                            text |-> b.updates[i].text,
                                                            raised |-> i \in raises])
                                            ELSE @]
       IN IF invoked /\ i \in raises THEN after
          ELSE ProcessUntilRaise(after, i + 1, raises)

(* poll_telegram_updates, the for-loop over data['result']: every update   *)
(* from the i-th on goes through handle_incoming_message; raises are the   *)
(* updates on which the handler raises, which handle_incoming_message      *)
(* catches and logs                                                        *)
RECURSIVE ProcessBatch(_, _, _)
ProcessBatch(b, i, raises) ==
  IF i > Len(b.updates) THEN b
  ELSE LET invoked == handle_incoming_message(b.handler, b.forward_prefix,
                                              b.updates[i])
       IN ProcessBatch([b EXCEPT !.seen = Append(@, i),
                                 !.handled = IF invoked
                                             THEN Append(@, [update_id |-> i,
                                                             text |-> b.updates[i].text,
                                                             raised |-> i \in raises])
                                             ELSE @],
                       i + 1, raises)

(* max(update_ids) + 1 for a batch of the updates first..n *)
NextOffset(first, n) ==
  (CHOOSE m \in first..n : \A k \in first..n : m >= k) + 1

bridgeFrame ==
  <<sessions, permission_requests, pending_requests, output_buffers,
    output_flush_timers, pty_processes, claimed_sessions, telegram_message_map,
    audit_log, sessions_file, proc, scheduled, flush_tasks, reader, sent,
    outcome, transitions, burst, last, allowed_user_ids, orphans, ctr>>

(* TelegramBridge.__init__ *)
Construct(prefix) ==
  /\ ~bridge.configured
  /\ bridge' = [NoBridge EXCEPT !.configured = TRUE, !.forward_prefix = prefix]
  /\ UNCHANGED bridgeFrame

(* set_message_handler *)
set_message_handler ==
  /\ bridge.configured /\ ~bridge.handler
  /\ bridge' = [bridge EXCEPT !.handler = TRUE]
  /\ UNCHANGED bridgeFrame

(* Telegram receives an update for the bot *)
Arrive(upd) ==
  /\ bridge.configured
  /\ Len(bridge.updates) < MaxUpdates
  /\ bridge' = [bridge EXCEPT !.updates = Append(@, upd)]
  /\ UNCHANGED bridgeFrame

(* one iteration of start_polling: offset = await poll_telegram_updates(   *)
(* offset).  getUpdates answers with the updates whose update_id is at     *)
(* least offset.  how is "ok" (status 200 with a 'result'), "no_result"    *)
(* (status 200 without), "http" (another status) or "error" (the request   *)
(* raised); an exception that leaves the for-loop reaches the same except  *)
(* branch, which returns the offset it was called with.                    *)
poll_telegram_updates(how, raises) ==
  LET first   == Max(bridge.offset, 1)
      n       == Len(bridge.updates)
      done    == ProcessBatch(bridge, first, raises)
      escaped == Len(done.seen) - Len(bridge.seen) < n - first + 1
  IN
  /\ bridge.configured
  /\ bridge' =
       IF how = "ok"
       THEN [done EXCEPT
               !.offset = IF escaped THEN bridge.offset
                          ELSE IF n >= first THEN NextOffset(first, n)
                          ELSE bridge.offset,
               !.status = IF escaped THEN "error" ELSE "ok"]
       ELSE [bridge EXCEPT !.status = how]
  /\ UNCHANGED bridgeFrame

NextBridge ==
  \/ \E prefix \in Prefixes : Construct(prefix)
  \/ set_message_handler
  \/ \E upd \in UpdateShapes : Arrive(upd)
  \/ \E raises \in SUBSET (Max(bridge.offset, 1)..Len(bridge.updates)) :
       poll_telegram_updates("ok", raises)
  \/ \E how \in {"no_result", "http", "error"} : poll_telegram_updates(how, {})

SpecBridge == InitWith(0, 0, {}) /\ [][NextBridge]_vars

(* everything together *)
Next ==
  NextStderr \/ NextBroker \/ NextDetect \/ NextRoute \/ NextCommands
    \/ NextRegistry \/ NextTokens \/ NextStart \/ NextBridge

Spec == Init /\ [][Next]_vars

(* ================================================================ claims *)
(* the edges of the session state machine; a failed spawn is the FAILED    *)
(* edge out of STARTING                                                    *)
LegalEdges ==
  {<<"CREATED", "STARTING">>, <<"STARTING", "RUNNING">>, <<"STARTING", "FAILED">>,
   <<"RUNNING", "COMPLETED">>, <<"RUNNING", "FAILED">>, <<"RUNNING", "CANCELLED">>}

(* C1: every assignment to a session's state follows an edge of           *)
(* CREATED -> STARTING -> RUNNING -> {COMPLETED, FAILED, CANCELLED}; in    *)
(* particular no assignment leaves a terminal state.                       *)
C1_OnlyLegalEdges == transitions \subseteq LegalEdges

(* the audit events written for a request *)
AuditOf(log, rid) ==
  SelectSeq(log, LAMBDA e : e.event = "permission.resolve" /\ e.request_id = rid)

(* C2: a PermissionRequest with resolved = true is immutable: no step      *)
(* changes its decision_code, decided_by or decided_at (or any field), and *)
(* none writes another audit event for it.                                 *)
C2_ResolvedImmutable ==
  [][\A rid \in DOMAIN permission_requests :
       permission_requests[rid].resolved =>
         /\ permission_requests'[rid] = permission_requests[rid]
         /\ AuditOf(audit_log', rid) = AuditOf(audit_log, rid)]_vars

(* the digit strings that are no option code of a request *)
InvalidCodeTexts(rid) ==
  {t \in Texts : IsDigit(t) /\ IntOf(t) \notin permission_requests[rid].options}

(* an unresolved request that is in its session's pending queue *)
IsPending(rid) ==
  /\ rid \in DOMAIN permission_requests
  /\ ~permission_requests[rid].resolved
  /\ permission_requests[rid].session_id \in DOMAIN pending_requests
  /\ \E i \in 1..Len(pending_requests[permission_requests[rid].session_id]) :
       pending_requests[permission_requests[rid].session_id][i] = rid

PromptOf(rid) ==
  [kind |-> "prompt", rid |-> rid, sid |-> permission_requests[rid].session_id]

(* C3: a digit string that is not an option code of a request never        *)
(* resolves it, neither as a direct reply to its prompt nor as a bare      *)
(* numeric reply: the request stays unresolved and pending and nothing is  *)
(* written to a process.                                                   *)
C3_InvalidCodeRejected ==
  [][\A rid \in DOMAIN permission_requests :
       \A u \in Users, wr \in BOOLEAN, tgt \in {NoTarget, PromptOf(rid)} :
         \A text \in InvalidCodeTexts(rid) :
           (IsPending(rid) /\ handle_reply(u, text, tgt, wr)) =>
             /\ permission_requests'[rid] = permission_requests[rid]
             /\ pending_requests' = pending_requests
             /\ proc' = proc]_vars

(* the digit strings that are an option code of a request *)
ValidCodeTexts(rid) ==
  {t \in Texts : IsDigit(t) /\ IntOf(t) \in permission_requests[rid].options}

(* the oldest request that is still pending, over all sessions *)
EarliestPending(rid) ==
  /\ IsPending(rid)
  /\ \A q \in DOMAIN permission_requests : IsPending(q) => rid <= q

(* the requests that are pending, and the users that are authorized *)
PendingSet == {rid \in DOMAIN permission_requests : IsPending(rid)}
Authorized == {u \in Users : IsAuthorized(u)}

(* C4: with two requests pending, a bare numeric reply with a valid code   *)
(* resolves the earliest pending request and leaves the other untouched    *)
(* and pending, while a direct reply to the prompt of the later request    *)
(* resolves that one and leaves the earliest untouched and pending.        *)
C4_ReplyCorrelation ==
  [][(ctr'.input # ctr.input /\ Cardinality(PendingSet) >= 2) =>
       \A r1 \in {r \in PendingSet : EarliestPending(r)} :
         \A r2 \in PendingSet \ {r1}, u \in Authorized, wr \in BOOLEAN :
           \A text \in ValidCodeTexts(r1) \cap ValidCodeTexts(r2) :
             /\ handle_reply(u, text, NoTarget, wr) =>
                  /\ permission_requests'[r1].resolved
                  /\ permission_requests'[r1].decision_code = IntOf(text)
                  /\ permission_requests'[r2] = permission_requests[r2]
                  /\ IsPending(r2)'
             /\ handle_reply(u, text, PromptOf(r2), wr) =>
                  /\ permission_requests'[r2].resolved
                  /\ permission_requests'[r2].decision_code = IntOf(text)
                  /\ permission_requests'[r1] = permission_requests[r1]
                  /\ IsPending(r1)']_vars

(* a later request was resolved by a direct reply while an earlier one is  *)
(* still pending                                                           *)
C4_Witness ==
  \E r1, r2 \in DOMAIN permission_requests :
    /\ r1 < r2
    /\ IsPending(r1)
    /\ permission_requests[r2].resolved
    /\ permission_requests[r2].decision_code \in permission_requests[r2].options
    /\ last = [op |-> "handle_reply", reply |-> "Permission decision recorded"]

(* the lines the read loop of a session handles in its next step *)
ScannedLines(s) == IF reader[s].pc = "poll" THEN proc[s].out ELSE reader[s].rest

(* C5: when the read loop of a running session (state RUNNING, process     *)
(* alive) handles a line that matches a permission pattern, a request of   *)
(* category "filesystem" is created unresolved and appended to the         *)
(* session's pending queue; when an authorized operator then answers that  *)
(* request with a valid code d (a direct reply to its prompt, or a bare    *)
(* number while it is the earliest pending) and the process is still       *)
(* alive, the request is resolved with decision d, the line d is written   *)
(* to the process input, and the request leaves the pending queue.         *)
C5_PromptToDecision ==
  [][/\ \A s \in DOMAIN reader :
          (/\ s \in DOMAIN sessions /\ sessions[s].state = "RUNNING"
           /\ proc[s].alive
           /\ FirstPromptIdx(ScannedLines(s)) > 0
           /\ (ReadPoll(s) \/ ReadResume(s))) =>
            /\ ctr.rid \notin DOMAIN permission_requests
            /\ ctr.rid \in DOMAIN permission_requests'
            /\ permission_requests'[ctr.rid].session_id = s
            /\ permission_requests'[ctr.rid].category = "filesystem"
            /\ ~permission_requests'[ctr.rid].resolved
            /\ pending_requests'[s] = Append(pending_requests[s], ctr.rid)
     /\ ctr'.input # ctr.input =>
          \A rid \in {r \in PendingSet : proc[permission_requests[r].session_id].alive} :
            LET s == permission_requests[rid].session_id IN
            \A u \in Authorized, wr \in BOOLEAN, text \in ValidCodeTexts(rid) :
              \A tgt \in {PromptOf(rid)}
                         \cup (IF EarliestPending(rid) THEN {NoTarget} ELSE {}) :
                handle_reply(u, text, tgt, wr) =>
                  /\ permission_requests'[rid].resolved
                  /\ permission_requests'[rid].decision_code = IntOf(text)
                  /\ proc'[s].stdin = Append(proc[s].stdin, text)
                  /\ ~IsPending(rid)'
                  /\ \A i \in 1..Len(pending_requests'[s]) :
                       pending_requests'[s][i] # rid]_vars

(* a detected prompt was answered: the request is resolved with a valid    *)
(* code, that code is the line the live process received, and the pending  *)
(* queue of the session is empty again                                     *)
C5_Witness ==
  \E rid \in DOMAIN permission_requests :
    LET r == permission_requests[rid] IN
    /\ r.category = "filesystem"
    /\ r.resolved
    /\ r.decision_code \in r.options
    /\ r.session_id \in DOMAIN sessions
    /\ proc[r.session_id].alive
    /\ proc[r.session_id].stdin = <<StrOf(r.decision_code)>>
    /\ pending_requests[r.session_id] = <<>>

(* ------------------------------------------------------------ the output *)
RECURSIVE Count(_, _)
Count(x, seq) ==
  IF seq = <<>> THEN 0
  ELSE (IF Head(seq) = x THEN 1 ELSE 0) + Count(x, Tail(seq))

(* the chunks relayed for a session, over all its output messages *)
RECURSIVE RelayedChunks(_, _)
RelayedChunks(s, msgs) ==
  IF msgs = <<>> THEN <<>>
  ELSE (IF Head(msgs).kind = "output" /\ Head(msgs).sid = s
        THEN ChunksOf(Head(msgs).text) ELSE <<>>)
       \o RelayedChunks(s, Tail(msgs))

(* nothing of session s is left to run: no timer, no flush task *)
Quiet(s) ==
  /\ \A h \in scheduled : h.sid # s
  /\ \A t \in flush_tasks : t.sid # s

(* C6: once the read loop of a session has detected the process exit and   *)
(* every timer and flush of the session has run, every line the process    *)
(* wrote before it exited has been relayed to the Messaging Port.          *)
C6_OutputRelayedBeforeEviction ==
  \A s \in DOMAIN reader :
    (reader[s].pc = "done" /\ Quiet(s)) =>
      \A l \in Lines : Count(l, RelayedChunks(s, sent)) >= Count(l, proc[s].log)

(* C7: a session whose process exited normally is recorded as COMPLETED    *)
(* with exit_code = 0.                                                     *)
C7_CompletedHasExitCode ==
  \A s \in DOMAIN outcome :
    outcome[s].state = "COMPLETED" => outcome[s].exit_code = 0

(* seq ends with tail *)
EndsWith(seq, tail) ==
  /\ Len(tail) <= Len(seq)
  /\ SubSeq(seq, Len(seq) - Len(tail) + 1, Len(seq)) = tail

(* C8: the timer that expires for a session is the one its last stdout     *)
(* chunk scheduled, a full interval after that chunk; and when the flush   *)
(* it starts runs for a session that is still registered and has received *)
(* several chunks since its last flush message, one message goes to the    *)
(* Messaging Port that carries all of those chunks, in order.              *)
C8_BurstFlushedOnce ==
  [][/\ \A h \in scheduled :
          TimerFire(h) => h.id = output_flush_timers[h.sid]
     /\ \A t \in flush_tasks :
          (/\ t.sid \in DOMAIN sessions
           /\ Len(burst[t.sid]) >= 2
           /\ FlushBegin(t)) =>
            /\ Len(sent') = Len(sent) + 1
            /\ sent'[Len(sent')].kind = "output"
            /\ sent'[Len(sent')].sid = t.sid
            /\ EndsWith(ChunksOf(sent'[Len(sent')].text), burst[t.sid])]_vars

(* C9: a stderr chunk handed to the aggregator is passed to the Messaging  *)
(* Port within the same call, as one stderr message carrying that chunk,   *)
(* and no flush timer is cancelled, scheduled or awaited for it.           *)
C9_StderrImmediate ==
  [][\A s \in SIDs, l \in Lines :
       StderrChunk(s, l) =>
         /\ Len(sent') = Len(sent) + 1
         /\ sent'[Len(sent')].kind = "output"
         /\ sent'[Len(sent')].stream = "stderr"
         /\ sent'[Len(sent')].sid = s
         /\ sent'[Len(sent')].text = <<l>>
         /\ scheduled' = scheduled
         /\ output_flush_timers' = output_flush_timers
         /\ flush_tasks' = flush_tasks]_vars

(* a stderr chunk went out while a stdout chunk of the same session was    *)
(* still waiting for its debounce timer                                    *)
C9_Witness ==
  \E s \in DOMAIN output_buffers :
    /\ output_buffers[s] = <<PlainLine, LongLine>>
    /\ Len(sent) = 1
    /\ sent[1].stream = "stderr" /\ sent[1].sid = s /\ sent[1].text = <<LongLine>>
    /\ \E h \in scheduled : h.sid = s /\ h.remaining = OUTPUT_FLUSH_MS

(* C10: every output message handed to the Messaging Port is at most       *)
(* OUTPUT_MAX_CHARS long, truncated or not.                                *)
C10_SentWithinMax ==
  \A i \in 1..Len(sent) :
    sent[i].kind = "output" => sent[i].len <= OUTPUT_MAX_CHARS

(* ---------------------------------------------------------- the detector *)
(* the lines of a sequence in which some pattern of the table is found *)
Matching(lines) == SelectSeq(lines, LAMBDA l : PatternHits(l) # {})

(* the lowest table index among the patterns found in a line *)
LowestHit(l) == CHOOSE p \in PatternHits(l) : \A q \in PatternHits(l) : p <= q

RequestsOf(s) ==
  {rid \in DOMAIN permission_requests : permission_requests[rid].session_id = s}

(* C11: the requests of a session are exactly one per matching line that   *)
(* went through the detector (none for a line no pattern matches, however  *)
(* often it is fed), and each carries the text matched by the first        *)
(* matching pattern in table order.                                        *)
C11_OneRequestPerMatchingLine ==
  \A s \in DOMAIN proc :
    /\ Cardinality(RequestsOf(s)) =
         Len(Matching(proc[s].log)) - Len(Matching(proc[s].out))
           - Len(Matching(reader[s].rest))
    /\ \A rid \in RequestsOf(s) :
         \E i \in 1..Len(proc[s].log) :
           /\ PatternHits(proc[s].log[i]) # {}
           /\ permission_requests[rid].summary =
                MatchText(proc[s].log[i], LowestHit(proc[s].log[i]))

(* a plain line and a line matching two patterns went through the          *)
(* detector: one request, with the text of the earlier pattern             *)
C11_Witness ==
  \E s \in DOMAIN proc :
    /\ proc[s].log = <<PlainLine, MultiLine>>
    /\ proc[s].out = <<>> /\ reader[s].pc = "poll"
    /\ Cardinality(RequestsOf(s)) = 1
    /\ \A rid \in RequestsOf(s) :
         permission_requests[rid].summary = "Permission required: Access to disk"

(* -------------------------------------------------------------- routing *)
FreeTexts == {t \in Texts : ~IsDigit(t)}

(* the sessions in an active state *)
ActiveOnes ==
  {s \in DOMAIN sessions : sessions[s].state \in {"RUNNING", "WAITING_PERMISSION"}}

(* the text reached the input of the process of session s, and of no other *)
WrittenTo(s, text) == proc' = [proc EXCEPT ![s].stdin = Append(@, text)]

Routed(u, tgt) ==
  IF tgt.kind \in {"prompt", "output"} THEN tgt.sid
  ELSE IF u \in DOMAIN claimed_sessions THEN claimed_sessions[u]
  ELSE IF Cardinality(ActiveOnes) = 1 THEN CHOOSE x \in ActiveOnes : TRUE
  ELSE 0

(* C13: free text is forwarded to the session named by the [SID:] token of *)
(* the replied-to message when there is one, whatever the sender claims    *)
(* and whichever sessions are active; otherwise to the sender's claimed    *)
(* session when there is a claim, whichever sessions are active; otherwise *)
(* to the only active session.  The text reaches the live process of that  *)
(* session and no other process, and when that session takes no input no   *)
(* lower-priority source is tried.                                         *)
C13_RoutePriority ==
  [][ctr'.input # ctr.input =>
       \A u \in Authorized, text \in FreeTexts, wr \in BOOLEAN :
         \A tgt \in {t \in ReplyTargets : t.kind # "prompt"} :
           handle_reply(u, text, tgt, wr) =>
             LET s == Routed(u, tgt) IN
             IF s # 0 /\ s \in pty_processes /\ proc[s].alive
             THEN WrittenTo(s, text)
             ELSE proc' = proc]_vars

(* an operator who claims one session replied to a relayed message of      *)
(* another: the text went to the session of the replied-to message         *)
C13_Witness ==
  \E u \in DOMAIN claimed_sessions, s \in DOMAIN sessions :
    /\ claimed_sessions[u] # s
    /\ claimed_sessions[u] \in ActiveOnes
    /\ \E i \in 1..Len(sent) : sent[i].kind = "output" /\ sent[i].sid = s
    /\ proc[s].stdin = <<"hi">>
    /\ proc[claimed_sessions[u]].stdin = <<>>
    /\ last = [op |-> "handle_reply", reply |-> ""]

(* a command or message of operator u is handled *)
Handled(u) ==
  \/ start_command(u)
  \/ help_command(u)
  \/ status_command(u)
  \/ sessions_command(u)
  \/ release_command(u)
  \/ \E s \in SIDs : claim_command(u, s) \/ cancel_command(u, s)
  \/ \E s \in SIDs, text \in Texts : send_command(u, s, text)
  \/ \E s \in SIDs, key \in Keys : keys_command(u, s, key)
  \/ \E text \in Texts, tgt \in ReplyTargets, wr \in BOOLEAN :
       handle_reply(u, text, tgt, wr)

(* C14: with a non-empty allow list, whatever an operator outside it       *)
(* sends, command or message, is answered "Unauthorized" and changes no    *)
(* session, request, queue, buffer, claim or process.                      *)
C14_UnauthorizedRejected ==
  [][\A u \in Users :
       (allowed_user_ids # {} /\ u \notin allowed_user_ids
          /\ ctr'.input # ctr.input /\ Handled(u))
       => (last'.reply = "Unauthorized" /\ UNCHANGED registries)]_vars

(* C15: once a running session is cancelled its read loop takes in nothing *)
(* more: while the session is CANCELLED no line is added to its buffer and *)
(* no permission request is created for it.                                *)
C15_CancelStopsReading ==
  [][\A s \in SIDs :
       (s \in DOMAIN sessions /\ sessions[s].state = "CANCELLED"
          /\ s \in DOMAIN output_buffers /\ s \in DOMAIN output_buffers')
       => /\ Len(output_buffers'[s]) <= Len(output_buffers[s])
          /\ \A rid \in DOMAIN permission_requests' :
               permission_requests'[rid].session_id = s
                 => rid \in DOMAIN permission_requests]_vars

(* C16: a permission request that stays unanswered is in the end resolved  *)
(* to its default option, also when the process writes nothing more and    *)
(* no operator replies.                                                    *)
C16_TimeoutResolves ==
  \A rid \in 1..MaxEmit :
    (rid \in DOMAIN permission_requests /\ ~permission_requests[rid].resolved)
      ~> (/\ rid \in DOMAIN permission_requests
          /\ permission_requests[rid].resolved
          /\ permission_requests[rid].decision_code = DefaultCode)

(* C17: end_time and duration_ms of a session are unset while it is        *)
(* CREATED, STARTING or RUNNING, are assigned at most once, at a step that *)
(* takes the session from a non-terminal into a terminal state, and        *)
(* duration_ms is then (end_time - start_time) in milliseconds.            *)
C17_EndTimeOnce ==
  [][\A s \in SIDs :
       /\ (s \in DOMAIN sessions
             /\ sessions[s].state \in {"CREATED", "STARTING", "RUNNING"})
          => (sessions[s].end_time = None /\ sessions[s].duration_ms = None)
       /\ (s \in DOMAIN outcome'
             /\ (s \notin DOMAIN outcome \/ outcome'[s] # outcome[s]))
          => /\ s \notin DOMAIN outcome
             /\ outcome'[s].state \in {"COMPLETED", "FAILED", "CANCELLED"}
             /\ outcome'[s].duration_ms =
                  (outcome'[s].end_time - outcome'[s].start_time) * 1000
             /\ s \in DOMAIN sessions
                  => sessions[s].state
                       \notin {"COMPLETED", "FAILED", "CANCELLED"}]_vars

(* the session reached a terminal state in the run that is ending *)
EndedBefore(s) ==
  \/ s \in DOMAIN outcome
  \/ s \in DOMAIN sessions
       /\ sessions[s].state \in {"COMPLETED", "FAILED", "CANCELLED"}

(* C18: after a restart the registry holds only sessions that had not     *)
(* reached a terminal state before it: a session that completed, failed    *)
(* or was cancelled in the earlier run is not rehydrated.                  *)
C18_OnlyLiveRehydrated ==
  [][Restart => \A s \in DOMAIN sessions' : ~EndedBefore(s)]_vars

(* C19: a session has at most one claiming operator: no two operators      *)
(* hold a claim on the same session at the same time.                      *)
C19_OneClaimant ==
  \A u1, u2 \in DOMAIN claimed_sessions :
    u1 # u2 => claimed_sessions[u1] # claimed_sessions[u2]

(* the id was never handed out: no session, ended session or stored record *)
(* carries it                                                              *)
Fresh(s) ==
  /\ s \notin DOMAIN sessions
  /\ s \notin DOMAIN outcome
  /\ \A i \in 1..Len(sessions_file) : sessions_file[i].session_id # s

(* C20: create_session, whether or not the record could be stored, hands   *)
(* out a fresh id whose session is registered in state CREATED with an     *)
(* empty output buffer and an empty pending queue, and leaves every other  *)
(* session, buffer, queue and every claim as it was.                       *)
C20_CreateSession ==
  [][\A saved \in BOOLEAN :
       CreateSession(saved) =>
         LET s == ctr.sid IN
         /\ Fresh(s)
         /\ DOMAIN sessions' = DOMAIN sessions \cup {s}
         /\ sessions'[s].state = "CREATED"
         /\ \A o \in DOMAIN sessions : sessions'[o] = sessions[o]
         /\ DOMAIN output_buffers' = DOMAIN output_buffers \cup {s}
         /\ output_buffers'[s] = <<>>
         /\ \A o \in DOMAIN output_buffers \ {s} :
              output_buffers'[o] = output_buffers[o]
         /\ DOMAIN pending_requests' = DOMAIN pending_requests \cup {s}
         /\ pending_requests'[s] = <<>>
         /\ \A o \in DOMAIN pending_requests \ {s} :
              pending_requests'[o] = pending_requests[o]
         /\ claimed_sessions' = claimed_sessions
         /\ permission_requests' = permission_requests]_vars

(* a session created while its record could not be stored, next to a       *)
(* running session that an operator has claimed                            *)
C20_Witness ==
  \E s \in DOMAIN sessions, o \in DOMAIN sessions, u \in DOMAIN claimed_sessions :
    /\ o # s
    /\ sessions[s].state = "CREATED"
    /\ \A i \in 1..Len(sessions_file) : sessions_file[i].session_id # s
    /\ s \in DOMAIN output_buffers /\ output_buffers[s] = <<>>
    /\ s \in DOMAIN pending_requests /\ pending_requests[s] = <<>>
    /\ sessions[o].state = "RUNNING"
    /\ claimed_sessions[u] = o

(* ------------------------------------------------------------ the tokens *)
(* the id has no closing bracket in it *)
NoClose(id) == \A i \in 1..Len(id) : id[i] # "]"

(* the id is not empty and has no bracket in it *)
Clean(id) == id # <<>> /\ \A i \in 1..Len(id) : id[i] \notin {"[", "]"}

(* tok occurs in text *)
Embeds(text, tok) ==
  \E i \in 0..(Len(text) - Len(tok)) : SubSeq(text, i + 1, i + Len(tok)) = tok

(* the text has no piece "SID:" or "RID:" at all *)
Lacks(text, tag) == \A i \in 1..Len(text) : text[i] # tag

Probed == last.op \in {"output", "prompt", "plain"}

(* C21: for every id without "]", extract_session_id on an outbound text   *)
(* that embeds [SID:id] returns id, and extract_request_id on a permission *)
(* prompt that embeds [RID:id] returns id; text without the token yields   *)
(* no id.                                                                  *)
C21_TokenRoundTrip ==
  Probed =>
    /\ (last.op # "plain" /\ NoClose(last.sid)
          /\ Embeds(last.text, Token("SID:", last.sid)))
       => last.got_sid = last.sid
    /\ (last.op = "prompt" /\ NoClose(last.rid)
          /\ Embeds(last.text, Token("RID:", last.rid)))
       => last.got_rid = last.rid
    /\ Lacks(last.text, "SID:") => last.got_sid = NoToken
    /\ Lacks(last.text, "RID:") => last.got_rid = NoToken

(* C21, amended: the same for ids that are not empty and have no bracket   *)
(* in them, every id embedded in the text being of that kind.              *)
C21_TokenRoundTripClean ==
  Probed =>
    /\ (last.op = "output" /\ Clean(last.sid)
          /\ Embeds(last.text, Token("SID:", last.sid)))
       => last.got_sid = last.sid
    /\ (last.op = "prompt" /\ Clean(last.sid) /\ Clean(last.rid))
       => (last.got_sid = last.sid /\ last.got_rid = last.rid)
    /\ Lacks(last.text, "SID:") => last.got_sid = NoToken
    /\ Lacks(last.text, "RID:") => last.got_rid = NoToken

(* a prompt with two different well-formed ids, followed by text that      *)
(* looks like a token, read back correctly                                 *)
C21_Witness ==
  /\ last.op = "prompt"
  /\ Clean(last.sid) /\ Clean(last.rid) /\ last.sid # last.rid
  /\ Embeds(last.text, <<"]", "[", "SID:", "a", "]">>)
  /\ last.got_sid = last.sid /\ last.got_rid = last.rid
  /\ last.sid # <<"a">>

(* C22: a stdout chunk appended to a session's buffer while the send of an *)
(* earlier flush is in flight is not discarded when that flush clears the  *)
(* buffer: it is still buffered, for a later flush, once the flush ends.   *)
C22_NoChunkLostInFlight ==
  [][\A t \in flush_tasks :
       (FlushEnd(t) /\ t.sid \in DOMAIN sessions
          /\ t.sid \in DOMAIN output_buffers)
       => EndsWith(output_buffers'[t.sid], burst[t.sid])]_vars

(* the session was created and is no longer in the live registry *)
Evicted(s) == s < ctr.sid /\ s \notin DOMAIN sessions

(* C23: once a session has been removed from the live registry, no output  *)
(* buffer, flush timer, pending-request queue or process handle is         *)
(* registered under its id, then or later.                                 *)
C23_EvictionComplete ==
  \A s \in SIDs :
    Evicted(s) =>
      /\ s \notin DOMAIN output_buffers
      /\ s \notin DOMAIN output_flush_timers
      /\ s \notin DOMAIN pending_requests
      /\ s \notin pty_processes

(* C24: between handlers no session of the live registry is in a terminal  *)
(* state: the handler that ends a session also removes it, a cancel by the *)
(* operator included.                                                      *)
C24_NoTerminalInRegistry ==
  \A s \in DOMAIN sessions :
    sessions[s].state \notin {"COMPLETED", "FAILED", "CANCELLED"}

(* C25: no pending-request queue holds the id of a request that has been   *)
(* resolved: the step that sets resolved also takes the id off the queue.  *)
C25_QueueHoldsUnresolved ==
  \A s \in DOMAIN pending_requests :
    \A i \in 1..Len(pending_requests[s]) :
      /\ pending_requests[s][i] \in DOMAIN permission_requests
      /\ ~permission_requests[pending_requests[s][i]].resolved

(* a request has been resolved while a later request of the same session   *)
(* is still waiting in the queue                                           *)
C25_Witness ==
  \E rid \in DOMAIN permission_requests :
    LET s == permission_requests[rid].session_id IN
    /\ permission_requests[rid].resolved
    /\ s \in DOMAIN pending_requests
    /\ pending_requests[s] # <<>>
    /\ \A i \in 1..Len(pending_requests[s]) : pending_requests[s][i] > rid

(* C26: a step that resolves a request writes nothing into the process of  *)
(* a session other than the request's own, whatever else is pending.       *)
C26_DecisionToOwnerOnly ==
  [][ctr'.input # ctr.input =>
       \A rid \in DOMAIN permission_requests :
         permission_requests'[rid] # permission_requests[rid] =>
           \A s \in DOMAIN proc :
             s # permission_requests[rid].session_id => proc'[s] = proc[s]]_vars

(* requests were pending in two sessions; the one of the later session has *)
(* been resolved and its code is in that session's process, the other      *)
(* process has received nothing and its request still waits                *)
C26_Witness ==
  \E rid \in DOMAIN permission_requests, other \in DOMAIN permission_requests :
    LET r == permission_requests[rid]
        o == permission_requests[other]
    IN /\ r.resolved /\ ~o.resolved
       /\ r.session_id > o.session_id
       /\ r.session_id \in DOMAIN proc /\ o.session_id \in DOMAIN proc
       /\ proc[r.session_id].stdin = <<StrOf(r.decision_code)>>
       /\ proc[o.session_id].stdin = <<>>
       /\ o.session_id \in DOMAIN pending_requests
       /\ pending_requests[o.session_id] = <<other>>

(* the records of session s in the durable session log, oldest first *)
LoggedOf(s) == SelectSeq(sessions_file, LAMBDA rec : rec.session_id = s)

(* C27: between handlers the last state logged for a session is the state  *)
(* it has in memory, and a session that has been evicted has a terminal    *)
(* state as its last logged one: every transition and eviction is logged.  *)
C27_LogFollowsState ==
  \A s \in SIDs :
    s < ctr.sid =>
      /\ LoggedOf(s) # <<>>
      /\ s \in DOMAIN sessions
           => LoggedOf(s)[Len(LoggedOf(s))].state = sessions[s].state
      /\ s \notin DOMAIN sessions
           => LoggedOf(s)[Len(LoggedOf(s))].state
                \in {"COMPLETED", "FAILED", "CANCELLED"}

(* the replies that tell the operator the input went nowhere *)
FailureReplies ==
  {"No active sessions", "Multiple active sessions", "not found",
   "not properly initialized", "Failed to send input"}

(* the step wrote text as one line into exactly one process *)
WrittenOnce(text) ==
  \E s \in DOMAIN proc :
    /\ proc'[s].stdin = Append(proc[s].stdin, text)
    /\ \A o \in DOMAIN proc \ {s} : proc'[o] = proc[o]

(* C28: a free-form message or a /send of an authorized operator is either *)
(* written to exactly one session's process or answered with a failure     *)
(* reply; nothing is dropped in silence and no success is reported for     *)
(* input that was not written.                                             *)
C28_NoSilentDrop ==
  [][\A u \in Users, text \in Texts :
       (/\ ctr'.input # ctr.input
        /\ IsAuthorized(u)
        /\ \/ \E s \in SIDs : send_command(u, s, text)
           \/ ~IsDigit(text)
                /\ \E tgt \in ReplyTargets, wr \in BOOLEAN :
                     handle_reply(u, text, tgt, wr))
       => \/ WrittenOnce(text)
          \/ proc' = proc /\ last'.reply \in FailureReplies]_vars

(* C29: handling operator text or a permission decision never changes a    *)
(* session's state and never removes a session from the live registry,     *)
(* also when the write into the process fails or the process has exited.   *)
C29_WriteFailureKeepsSession ==
  [][(ctr'.input # ctr.input /\ last'.op \in {"handle_reply", "send_command"})
       => sessions' = sessions]_vars

(* the step sent something to the process of s: it is stopped, or an       *)
(* interrupt has been delivered to it                                      *)
Signalled(s) == ~proc'[s].alive \/ proc'[s].stdin # proc[s].stdin

(* C30: the step that makes a session CANCELLED or COMPLETED while its     *)
(* process is alive sends that process a terminate signal.                 *)
C30_EndedProcessSignalled ==
  [][\A s \in DOMAIN proc :
       (/\ proc[s].alive
        /\ \/ /\ s \in DOMAIN sessions /\ s \in DOMAIN sessions'
              /\ sessions[s].state # "CANCELLED"
              /\ sessions'[s].state = "CANCELLED"
           \/ /\ s \notin DOMAIN outcome /\ s \in DOMAIN outcome'
              /\ outcome'[s].state = "COMPLETED")
       => Signalled(s)]_vars

(* C31: every session in a terminal state has end_time and duration_ms     *)
(* set, a session cancelled by the operator included.                      *)
C31_TerminalHasEndTime ==
  /\ \A s \in DOMAIN sessions :
       sessions[s].state \in {"COMPLETED", "FAILED", "CANCELLED"}
         => (sessions[s].end_time # None /\ sessions[s].duration_ms # None)
  /\ \A s \in DOMAIN outcome :
       outcome[s].end_time # None /\ outcome[s].duration_ms # None

(* the chunks of session s that went out in messages of the given stream *)
RECURSIVE RelayedBy(_, _, _)
RelayedBy(s, stream, msgs) ==
  IF msgs = <<>> THEN <<>>
  ELSE (IF Head(msgs).kind = "output" /\ Head(msgs).sid = s
           /\ Head(msgs).stream = stream
        THEN ChunksOf(Head(msgs).text) ELSE <<>>)
       \o RelayedBy(s, stream, Tail(msgs))

(* C32: no chunk is forwarded twice: a flush, debounced for stdout or      *)
(* immediate for stderr, leaves none of the chunks it forwarded in the     *)
(* buffer, so the stdout messages of a session carry each line at most as  *)
(* often as the process wrote it, and never a chunk that already went out  *)
(* as a stderr message.                                                    *)
C32_ForwardedOnce ==
  \A s \in DOMAIN proc :
    \A l \in Lines :
      Count(l, RelayedBy(s, "stdout", sent)) <= Count(l, proc[s].log)

(* the position in sent of the first stdout message of session s that      *)
(* carries line l; 0 when there is none                                    *)
FirstMsg(s, l) ==
  LET carrying == {i \in 1..Len(sent) :
                     /\ sent[i].kind = "output" /\ sent[i].sid = s
                     /\ sent[i].stream = "stdout"
                     /\ \E k \in 1..Len(ChunksOf(sent[i].text)) :
                          ChunksOf(sent[i].text)[k] = l}
  IN IF carrying = {} THEN 0
     ELSE CHOOSE i \in carrying : \A j \in carrying : i <= j

(* no line occurs twice *)
Distinct(seq) == \A i, j \in 1..Len(seq) : i # j => seq[i] # seq[j]

(* C33: within a session the chunks reach the Messaging Port in the order  *)
(* the process wrote them: when a line has gone out, every line written    *)
(* before it has gone out in the same or an earlier message.  Stated for   *)
(* processes whose lines are all different, so that a line names a chunk.  *)
C33_RelayedInOrder ==
  \A s \in DOMAIN proc :
    Distinct(proc[s].log) =>
      \A i, j \in 1..Len(proc[s].log) :
        (i < j /\ FirstMsg(s, proc[s].log[j]) # 0) =>
          /\ FirstMsg(s, proc[s].log[i]) # 0
          /\ FirstMsg(s, proc[s].log[i]) <= FirstMsg(s, proc[s].log[j])

(* C34: a start request for a session that is not CREATED spawns nothing:  *)
(* the processes, the registered handles and the read loops are as before. *)
C34_SpawnedOnce ==
  [][\A s \in DOMAIN sessions, ok \in BOOLEAN :
       (sessions[s].state # "CREATED" /\ StartSession(s, ok))
       => (proc' = proc /\ pty_processes' = pty_processes /\ reader' = reader)]_vars

(* C35: no step that creates or resolves a permission request changes a    *)
(* session, no step that changes a pending queue changes the state of a    *)
(* session that stays registered, and no session is ever in the state      *)
(* WAITING_PERMISSION: a session holding a request stays as it was.        *)
C35_RequestsLeaveStateAlone ==
  [][/\ permission_requests' # permission_requests => sessions' = sessions
     /\ pending_requests' # pending_requests
          => \A s \in DOMAIN sessions \cap DOMAIN sessions' :
               sessions'[s].state = sessions[s].state
     /\ \A s \in DOMAIN sessions' :
          sessions'[s].state # "WAITING_PERMISSION"]_vars

(* a running session that has had one request resolved and holds another   *)
C35_Witness ==
  \E s \in DOMAIN sessions, rid \in DOMAIN permission_requests :
    /\ sessions[s].state = "RUNNING"
    /\ permission_requests[rid].session_id = s
    /\ permission_requests[rid].resolved
    /\ s \in DOMAIN pending_requests
    /\ Len(pending_requests[s]) = 1
    /\ ~permission_requests[pending_requests[s][1]].resolved

(* C36: the claim map changes only through /claim and /release.  /claim of *)
(* an existing session by an authorized operator sets that operator's one  *)
(* entry and leaves the others; /release removes the operator's entry and  *)
(* leaves the others; either one repeated leaves the map as it is; a       *)
(* rejected /claim or /release and every other step leave the map alone.   *)
C36_ClaimMapOwnedByClaimRelease ==
  [][/\ \A u \in Users, s \in SIDs :
          claim_command(u, s)
          => claimed_sessions' =
               IF IsAuthorized(u) /\ s \in DOMAIN sessions
               THEN [x \in DOMAIN claimed_sessions \cup {u} |->
                       IF x = u THEN s ELSE claimed_sessions[x]]
               ELSE claimed_sessions
     /\ \A u \in Users :
          release_command(u)
          => claimed_sessions' =
               IF IsAuthorized(u)
               THEN [x \in DOMAIN claimed_sessions \ {u} |-> claimed_sessions[x]]
               ELSE claimed_sessions
     /\ \A u \in Users, s \in SIDs :
          (claim_command(u, s) /\ u \in DOMAIN claimed_sessions
             /\ claimed_sessions[u] = s)
          => claimed_sessions' = claimed_sessions
     /\ \A u \in Users :
          (release_command(u) /\ u \notin DOMAIN claimed_sessions)
          => claimed_sessions' = claimed_sessions
     /\ (/\ ~\E u \in Users, s \in SIDs : claim_command(u, s)
         /\ ~\E u \in Users : release_command(u))
        => claimed_sessions' = claimed_sessions]_vars

(* two operators hold claims, one of them on a session that has since     *)
(* been evicted from the registry                                         *)
C36_Witness ==
  /\ \E u \in DOMAIN claimed_sessions : claimed_sessions[u] \notin DOMAIN sessions
  /\ \E u \in DOMAIN claimed_sessions : claimed_sessions[u] \in DOMAIN sessions

Queued(q, rid) ==
  \E s \in DOMAIN q : \E i \in 1..Len(q[s]) : q[s][i] = rid

Digits == {t \in Texts : IsDigit(t)}

(* C37: a reply that resolves a request leaves it resolved with the        *)
(* operator's decision and out of every pending queue, whether or not the  *)
(* decision could be written to the process and whether or not the owning  *)
(* session and process still exist; a resolved request is never unresolved *)
(* or queued again, and a later bare numeric reply leaves it as it is.     *)
C37_DecisionConsumed ==
  [][/\ \A rid \in DOMAIN permission_requests :
          permission_requests[rid].resolved
          => /\ rid \in DOMAIN permission_requests'
             /\ permission_requests'[rid].resolved
             /\ ~Queued(pending_requests', rid)
     /\ (ctr'.input # ctr.input /\ last'.reply # "Unauthorized")
        => \A u \in {x \in Users : IsAuthorized(x)}, text \in Digits,
              tgt \in ReplyTargets, wr \in BOOLEAN :
             handle_reply(u, text, tgt, wr)
             => /\ last'.reply \in {"Permission decision recorded", ""}
                   => \E rid \in DOMAIN permission_requests' :
                        /\ permission_requests'[rid].resolved
                        /\ permission_requests'[rid].decision_code = IntOf(text)
                        /\ permission_requests'[rid].decided_by = u
                        /\ ~Queued(pending_requests', rid)
                        /\ \A q \in DOMAIN permission_requests \ {rid} :
                             permission_requests'[q] = permission_requests[q]
                /\ tgt = NoTarget
                   => \A rid \in DOMAIN permission_requests :
                        permission_requests[rid].resolved
                        => permission_requests'[rid] = permission_requests[rid]]_vars

(* a request resolved with 1 whose decision never reached a process, out   *)
(* of every queue, after a later bare numeric reply found nothing to match *)
C37_Witness ==
  /\ last.reply = "No pending permission request found for your reply"
  /\ \E rid \in DOMAIN permission_requests :
       LET r == permission_requests[rid] IN
         /\ r.resolved /\ r.decision_code = 1
         /\ ~Queued(pending_requests, rid)
         /\ \A s \in DOMAIN proc : proc[s].stdin = <<>>

(* run_command(s) has returned from start_session and s is in the registry *)
Waiting(s) == s < ctr.sid /\ s \in DOMAIN sessions

(* C38: run_command terminates: once the spawn has failed or the process   *)
(* has exited, the session leaves the registry, so that the wait loop of   *)
(* run_command ends, whatever cancel, claim, input and permission events   *)
(* are interleaved, provided the read loop is scheduled fairly.            *)
C38_RunCommandTerminates ==
  \A s \in SIDs :
    (s < ctr.sid /\ (s \notin DOMAIN proc \/ ~proc[s].alive)) ~> ~Waiting(s)

(* a session cancelled by the operator whose process then exited and whose *)
(* read loop has evicted it                                                *)
C38_Witness ==
  \E s \in SIDs :
    /\ s < ctr.sid /\ s \in DOMAIN proc /\ ~proc[s].alive
    /\ ~Waiting(s)
    /\ reader[s].pc = "done"
    /\ <<"CANCELLED", "COMPLETED">> \in transitions

HandledIds == {bridge.handled[i].update_id : i \in 1..Len(bridge.handled)}

SeenIds == {bridge.seen[i] : i \in 1..Len(bridge.seen)}

(* C39: the message handler is invoked only for updates that carry a       *)
(* message with a text, whose chat id is the configured chat id and, when  *)
(* a forward prefix is set, whose text starts with the prefix, and it is   *)
(* given that text; every other update is dropped without an invocation.   *)
C39_OnlyMatchingForwarded ==
  /\ \A i \in 1..Len(bridge.handled) :
       LET h == bridge.handled[i]
           u == bridge.updates[h.update_id]
       IN /\ u.message /\ u.chat /\ u.has_text
          /\ u.chat_id = ChatId
          /\ h.text = u.text
          /\ bridge.forward_prefix # <<>>
               => \E k \in 0..Len(u.text) :
                    SubSeq(u.text, 1, k) = bridge.forward_prefix
  /\ HandledIds \subseteq SeenIds

(* with a prefix set, one update was given to the handler and two others,  *)
(* of another chat and without the prefix, were seen and dropped           *)
C39_Witness ==
  /\ bridge.forward_prefix # <<>>
  /\ HandledIds # {}
  /\ \E i, j \in SeenIds \ HandledIds :
       /\ bridge.updates[i].chat_id = OtherChat /\ bridge.updates[i].has_text
       /\ bridge.updates[j].chat_id = ChatId /\ bridge.updates[j].has_text

(* a step of the polling loop: the bridge changes, the updates at Telegram *)
(* and the handler do not                                                  *)
PollStep ==
  /\ bridge.configured
  /\ bridge' # bridge
  /\ bridge'.updates = bridge.updates
  /\ bridge'.handler = bridge.handler

(* C40: the polling loop keeps its place.  A poll that ends in an HTTP or  *)
(* polling error leaves the offset as it was and hands no update over; a   *)
(* poll that returns a batch hands every update of the batch over once, in *)
(* order, invokes the handler for every matching update of the batch even  *)
(* when the handler raised on an earlier one, and moves the offset to the  *)
(* largest update_id plus one; no update is handed over twice and the      *)
(* offset never goes back.                                                 *)
C40_PollingKeepsPlace ==
  [][PollStep =>
       LET first == IF bridge.offset > 1 THEN bridge.offset ELSE 1
           n     == Len(bridge.updates)
       IN
       /\ bridge'.status # "ok"
            => /\ bridge'.offset = bridge.offset
               /\ bridge'.seen = bridge.seen
               /\ bridge'.handled = bridge.handled
       /\ bridge'.status = "ok"
            => /\ bridge'.offset = IF n >= first THEN n + 1 ELSE bridge.offset
               /\ bridge'.seen = bridge.seen \o [k \in 1..(n - first + 1) |-> first + k - 1]
               /\ \A i \in first..n :
                    handle_incoming_message(bridge.handler, bridge.forward_prefix,
                                            bridge.updates[i])
                    => \E k \in (Len(bridge.handled) + 1)..Len(bridge'.handled) :
                         bridge'.handled[k].update_id = i
       /\ \A i, j \in 1..Len(bridge'.seen) :
            i # j => bridge'.seen[i] # bridge'.seen[j]
       /\ bridge'.offset >= bridge.offset]_vars

(* every update has been handed over and confirmed, the handler having     *)
(* raised on one update and been invoked for a later one                   *)
C40_Witness ==
  /\ bridge.status = "ok"
  /\ Len(bridge.updates) >= 2
  /\ bridge.offset = Len(bridge.updates) + 1
  /\ Len(bridge.seen) = Len(bridge.updates)
  /\ \E i, j \in 1..Len(bridge.handled) :
       /\ i < j
       /\ bridge.handled[i].raised
       /\ ~bridge.handled[j].raised

====
